---- MODULE Spec2Model ----
(***************************************************************************)
(* Match orchestration of llm-arena: the WASM engine wrapper and adapter,  *)
(* the MatchController turn loop, and the useGameMatch hook that owns the  *)
(* controllers.  Every await of the TypeScript source is a step boundary:  *)
(* the code between two awaits is one atomic action.                       *)
(***************************************************************************)
EXTENDS Integers, Sequences, FiniteSets, TLC

\* ------------------------------------------------------------------ bounds
NCells == 4
MaxRuns == 2
MaxInvalid == 1
MaxCtl == 2
MaxMM == 2
MaxRefused == 1
MaxPromises == 2
MaxOps == 4
MaxTime == 3
\* milliseconds that pass in one step of the model's clock
TickMs == 150000
MaxCancels == 1
MaxResets == 1
MaxLen == 3

\* characters of a get_valid_moves reply
MaxReply == 3

\* wrapper queries in a row
MaxQueries == 2

\* callLLM calls in a row
MaxCalls == 2

\* calls on the loader (loadGameFromBytes, clearAllGames, removeGame) and
\* page reloads, together
MaxLoaderCalls == 3

\* the last millisecond Date.now() reaches
MaxClock == 3
\* The size of a page of the module's memory, in bytes, scaled down.
PageBytes == 4
\* The most pages the module's memory can have.
MaxPages == 4

Players == {"player1", "player2"}
Cells == 1..NCells
\* move.data: a cell name (a string of the module's move notation), or 0 for
\* a payload that is not a string (position-only moves, objects).
MoveData == 0..NCells
MoveSet == [playerId : Players, data : MoveData]
Ctl == 1..MaxCtl
Slots == 1..MaxMM

\* --------------------------------------------------- the foreign module
\* A reference module behind the calling surface: a state string is the
\* sequence of cells taken so far, players alternate, taking cell 1 wins for
\* the taker, taking cell NCells ends the game as a draw.  A reply that
\* starts with 0 stands for an 'ERROR:'-prefixed string.
ErrorReply == <<0>>

StartsWithError(s) == Len(s) > 0 /\ s[1] = 0

Taken(s) == {s[i] : i \in 1..Len(s)}

get_initial_state == <<>>

is_game_over(s) == ~StartsWithError(s) /\ (1 \in Taken(s) \/ NCells \in Taken(s))

get_valid_moves(s) ==
  IF StartsWithError(s) \/ is_game_over(s) THEN {} ELSE Cells \ Taken(s)

apply_move(s, m) == IF m \in get_valid_moves(s) THEN Append(s, m) ELSE ErrorReply

get_current_player(s) ==
  IF StartsWithError(s) THEN "ERROR"
  ELSE IF Len(s) % 2 = 0 THEN "player1" ELSE "player2"

get_winner(s) ==
  IF StartsWithError(s) THEN ""
  ELSE IF \E i \in 1..Len(s) : s[i] = 1
       THEN LET i == CHOOSE j \in 1..Len(s) : s[j] = 1
            IN  IF i % 2 = 1 THEN "player1" ELSE "player2"
       ELSE IF NCells \in Taken(s) THEN "draw" ELSE ""

\* ------------------------------------------------------ WasmGameWrapper
\* The wrapper's cached currentState is the variable wasmState; each query
\* is evaluated on the state string it is given.
WrapperGetWinner(ws) ==
  LET w == get_winner(ws)
  IN  IF w \in {"player1", "player2", "draw"} THEN w ELSE "null"

\* [ok |-> FALSE] stands for the thrown 'WASM implementation error'.
WrapperGetCurrentPlayer(ws) ==
  LET p == get_current_player(ws)
  IN  IF p \in Players THEN [ok |-> TRUE, val |-> p] ELSE [ok |-> FALSE, val |-> p]

\* The same two queries as functions of what the module replied.  The
\* get_current_player export is optional: exported says whether the module
\* has it, label is the string it returned.
WasmGetWinner(label) ==
  IF label \in {"player1", "player2", "draw"} THEN label ELSE "null"

WasmGetCurrentPlayer(exported, label) ==
  IF exported
  THEN IF label = "player1" THEN [ok |-> TRUE, val |-> "player1"]
       ELSE IF label = "player2" THEN [ok |-> TRUE, val |-> "player2"]
       ELSE [ok |-> FALSE, val |-> label]
  ELSE [ok |-> TRUE, val |-> "player1"]

\* ------------------------------------------------ WasmGameEngineAdapter
NoPlayer == "none"

AdapterGetInitialState ==
  LET ws == get_initial_state
      cp == WrapperGetCurrentPlayer(ws)
  IN  [ok |-> cp.ok, ws |-> ws,
       state |-> [board |-> ws, currentPlayer |-> cp.val, moves |-> <<>>,
                  result |-> "ongoing", winner |-> NoPlayer]]

\* A plausible slip: the mover is not compared with the engine's player.
AdapterValidateMoveAnyPlayer(ws, move) ==
  LET validMoves == get_valid_moves(ws)
      cp == WrapperGetCurrentPlayer(ws)
  IN  IF ~cp.ok THEN "throw"
      ELSE IF move.data = 0 THEN "throw"
      ELSE IF move.data \in validMoves THEN "true" ELSE "false"

\* "throw" | "true" | "false"
AdapterValidateMove(ws, move) ==
  LET validMoves == get_valid_moves(ws)
      cp == WrapperGetCurrentPlayer(ws)
  IN  IF ~cp.ok THEN "throw"
      ELSE IF move.data = 0 THEN "throw"
      ELSE IF cp.val # move.playerId THEN "false"
      ELSE IF move.data \in validMoves THEN "true" ELSE "false"

\* A plausible slip: the new state keeps the old move list.
GameStateAfterNoAppend(newWasmState, state, move) ==
  LET over == is_game_over(newWasmState)
      winner == IF over THEN WrapperGetWinner(newWasmState) ELSE "null"
  IN  [board |-> newWasmState,
       currentPlayer |-> WrapperGetCurrentPlayer(newWasmState).val,
       moves |-> state.moves,
       result |-> IF ~over THEN "ongoing"
                  ELSE IF winner \in Players THEN "win" ELSE "draw",
       winner |-> IF over /\ winner \in Players THEN winner ELSE NoPlayer]

\* The GameState applyMove returns for an accepted move.
GameStateAfter(newWasmState, state, move) ==
  LET over == is_game_over(newWasmState)
      winner == IF over THEN WrapperGetWinner(newWasmState) ELSE "null"
  IN  [board |-> newWasmState,
       currentPlayer |-> WrapperGetCurrentPlayer(newWasmState).val,
       moves |-> Append(state.moves, move),
       result |-> IF ~over THEN "ongoing"
                  ELSE IF winner \in Players THEN "win" ELSE "draw",
       winner |-> IF over /\ winner \in Players THEN winner ELSE NoPlayer]

\* A plausible slip: the reply is not tested for the error prefix.
AdapterApplyMoveNoThrow(ws, state, move) ==
  IF move.data = 0 THEN [ok |-> FALSE, ws |-> ws, state |-> state]
  ELSE
    LET newWasmState == apply_move(ws, move.data) IN
    [ok |-> TRUE, ws |-> newWasmState, state |-> GameStateAfter(newWasmState, state, move)]

\* The wrapper stores the module's reply as its current state before the
\* adapter looks at it: ws is the wrapper's state after the call, also
\* when the call throws.
AdapterApplyMove(ws, state, move) ==
  IF move.data = 0 THEN [ok |-> FALSE, ws |-> ws, state |-> state]
  ELSE
    LET newWasmState == apply_move(ws, move.data) IN
    IF StartsWithError(newWasmState) \/ ~WrapperGetCurrentPlayer(newWasmState).ok
    THEN [ok |-> FALSE, ws |-> newWasmState, state |-> state]
    ELSE [ok |-> TRUE, ws |-> newWasmState,
          state |-> GameStateAfter(newWasmState, state, move)]

AdapterGetWinner(ws, state) ==
  IF state.result = "draw" THEN NoPlayer
  ELSE LET w == WrapperGetWinner(ws)
       IN  IF w \in Players THEN w ELSE NoPlayer

\* ------------------------------- the adapter over a module of given replies
\* A module seen from the host: whether it exports get_current_player, the
\* label that export returns, whether apply_move answers with an 'ERROR:'
\* string, what is_game_over says and the label get_winner returns.
Labels == {"player1", "player2", "", "X"}

WinLabels == {"player1", "player2", "draw", "", "X"}

Modules ==
  [hasCurrentPlayer : BOOLEAN, player : Labels, applyError : BOOLEAN,
   over : BOOLEAN, winner : WinLabels]

\* What an adapter call gave: threw, or the player, result and winner of
\* the value it returned ("none" where the value has no such part).
Threw == [threw |-> TRUE, player |-> NoPlayer, result |-> "none", winner |-> NoPlayer]

Returned(player, result, winner) ==
  [threw |-> FALSE, player |-> player, result |-> result, winner |-> winner]

mapWasmPlayerToSystemPlayer(wasmPlayer) ==
  IF wasmPlayer = "player1" THEN [ok |-> TRUE, val |-> "player1"]
  ELSE IF wasmPlayer = "player2" THEN [ok |-> TRUE, val |-> "player2"]
  ELSE [ok |-> FALSE, val |-> wasmPlayer]

\* wasmEngine.getCurrentPlayer?.(), the test for a missing value and the
\* mapping, as each adapter operation does them.
ReadCurrentPlayer(m) ==
  LET w == WasmGetCurrentPlayer(m.hasCurrentPlayer, m.player)
  IN  IF ~w.ok THEN w
      ELSE IF w.val = "" THEN [ok |-> FALSE, val |-> ""]
      ELSE mapWasmPlayerToSystemPlayer(w.val)

ModuleGetInitialState(m) ==
  LET cp == ReadCurrentPlayer(m)
  IN  IF cp.ok THEN Returned(cp.val, "ongoing", NoPlayer) ELSE Threw

ModuleGetValidMoves(m) ==
  LET cp == ReadCurrentPlayer(m)
  IN  IF cp.ok THEN Returned(cp.val, "none", NoPlayer) ELSE Threw

ModuleApplyMove(m) ==
  IF m.applyError THEN Threw
  ELSE
    LET isGameOver == m.over
        winner == IF isGameOver THEN WasmGetWinner(m.winner) ELSE "null"
        currentPlayer == ReadCurrentPlayer(m)
    IN  IF ~currentPlayer.ok THEN Threw
        ELSE IF ~isGameOver THEN Returned(currentPlayer.val, "ongoing", NoPlayer)
        ELSE IF winner = "draw" THEN Returned(currentPlayer.val, "draw", NoPlayer)
        ELSE IF winner # "null"
             THEN LET mappedWinner == mapWasmPlayerToSystemPlayer(winner)
                  IN  IF mappedWinner.ok
                      THEN Returned(currentPlayer.val, "win", mappedWinner.val)
                      ELSE Threw
        ELSE Returned(currentPlayer.val, "draw", NoPlayer)

ModuleGetCurrentPlayer(m) ==
  LET cp == ReadCurrentPlayer(m)
  IN  IF cp.ok THEN Returned(cp.val, "none", NoPlayer) ELSE Threw

\* getWinner(state): result is state.result.
ModuleGetWinner(m, result) ==
  IF result = "draw" THEN Returned(NoPlayer, "none", NoPlayer)
  ELSE
    LET winner == WasmGetWinner(m.winner) IN
    IF winner = "draw" \/ winner = "null" THEN Returned(NoPlayer, "none", NoPlayer)
    ELSE LET w == mapWasmPlayerToSystemPlayer(winner)
         IN  IF w.ok THEN Returned(NoPlayer, "none", w.val) ELSE Threw


\* ----------------------------------------------------------------- state
VARIABLES
  wasmState,  \* WasmGameWrapper.currentState of the one loaded engine
  ctl,        \* the MatchController objects, by construction order
  hook,       \* useGameMatch: globalMatchController, matchControllerRef, state
  mm,         \* MatchController.makeMove calls in flight
  human,      \* one HumanAgent, the promises its getMove returned, its timers
  llm,        \* one LLMAgent and its getMove call in flight
  pm,         \* one LLMAgent.parseMove call: its inputs and its result
  adp,        \* one adapter over a module of given replies, and its last call
  wq,         \* one wrapper query: the module's reply, the pointers alive; or
              \* one string on its way through the module's memory
  ldr,        \* the WasmGameLoader: registry, id counter, persisted store
  svc         \* one LLMService.callLLM call and the error it raised

vars == <<wasmState, ctl, hook, mm, human, llm, pm, adp, wq, ldr, svc>>

agentVars == <<human, llm, pm>>

hostVars == <<adp, wq, ldr, svc>>

NoMove == [playerId |-> "player1", data |-> 0]

ZeroCalls == [p \in Players |-> 0]

\* A MatchController right after its constructor and setAgent calls.
NewController(state, agents, hooked, byHook) ==
  [made |-> TRUE, byHook |-> byHook, agents |-> agents, hooked |-> hooked,
   currentState |-> state, isRunning |-> FALSE, agentsStarted |-> {},
   transcript |-> 0, pc |-> "idle", curP |-> "player1", mv |-> NoMove,
   newSt |-> state, winner |-> NoPlayer, endTodo |-> <<>>, pending |-> 0,
   \* observations of the controller's calls and events
   runs |-> 0, calls |-> 0, evError |-> 0, evGameEnd |-> 0, evStateChange |-> 0,
   lastAttempt |-> [move |-> NoMove, valid |-> TRUE], evAttemptFalse |-> 0,
   startCalls |-> ZeroCalls, endCalls |-> ZeroCalls,
   endVerdict |-> [p \in Players |-> "none"], oppCalls |-> 0, asked |-> {},
   nApplied |-> 0, nInvalid |-> 0, errInLoop |-> FALSE, retry |-> NoPlayer,
   stopped |-> FALSE, finalWinner |-> NoPlayer]

NotMade == [NewController(AdapterGetInitialState.state, {}, {}, FALSE) EXCEPT !.made = FALSE]

\* useGameMatch event callbacks (closures over the hook's state and the global).
OnGameEndCb(h) == [h EXCEPT !.isGameOver = TRUE, !.isPlaying = FALSE, !.global = 0]

OnErrorCb(h) == [h EXCEPT !.error = TRUE, !.isPlaying = FALSE, !.global = 0]

HookAfter(c, h) == hook' = IF ctl[c].byHook THEN h ELSE hook

\* ------------------------------------------------------ MatchController
\* Continuations of awaited engine calls and agent hooks run as microtasks;
\* a task of its own (a UI event, a timer, a network reply) starts only when
\* no controller continuation is queued, that is when every controller is
\* awaiting an agent's move or is not in startMatch.
Suspended(r) == r.pc \in {"wait", "idle"}

Quiet == \A d \in Ctl : Suspended(ctl[d])

OthersQuiet(c) == \A d \in Ctl \ {c} : Suspended(ctl[d])

\* Head of the while loop: isGameOverAsync is called (and the engine
\* queried) before the await that precedes the branch.
LoopHead(ws) == IF is_game_over(ws) THEN "over" ELSE "notover"

\* Body of startMatch up to its first await.
StartMatchBody(r) ==
  [r EXCEPT !.isRunning = TRUE, !.transcript = @ + 1, !.pc = "board",
            !.runs = @ + 1, !.evError = 0, !.evGameEnd = 0, !.endCalls = ZeroCalls,
            !.endVerdict = [p \in Players |-> "none"], !.errInLoop = FALSE,
            !.retry = NoPlayer]

\* A plausible slip: the guard never turns a call away.
AlreadyRunningNever(r) == FALSE

\* startMatch's guard.
AlreadyRunning(r) == r.isRunning

StartMatch(c) ==
  LET r == ctl[c] IN
  /\ r.made /\ ~r.byHook
  /\ IF AlreadyRunning(r)
     THEN /\ r.calls - r.runs < MaxRefused
          /\ ctl' = [ctl EXCEPT ![c] = [r EXCEPT !.calls = @ + 1]]
     ELSE /\ r.runs < MaxRuns
          /\ ctl' = [ctl EXCEPT ![c] = [StartMatchBody(r) EXCEPT !.calls = @ + 1]]
  /\ UNCHANGED <<wasmState, hook, mm>>

\* After the board display: transcript, onStateChange, gameLoop's first test.
StartBoard(c) ==
  LET r == ctl[c] IN
  /\ r.pc = "board"
  /\ ctl' = [ctl EXCEPT ![c] = [r EXCEPT !.transcript = @ + 1, !.evStateChange = @ + 1,
                                         !.pc = LoopHead(wasmState)]]
  /\ UNCHANGED <<wasmState, hook, mm>>

\* Loop body start: resolve whose turn it is.
ResolvePlayer(c) ==
  LET r == ctl[c]
      cp == WrapperGetCurrentPlayer(wasmState)
  IN
  /\ r.pc = "notover"
  /\ ctl' = [ctl EXCEPT ![c] = IF cp.ok THEN [r EXCEPT !.curP = cp.val, !.pc = "turn"]
                                ELSE [r EXCEPT !.pc = "sthrow"]]
  /\ UNCHANGED <<wasmState, hook, mm>>

\* The try block up to agent.getMove: transcript line, then the request.
RequestMove(r) ==
  [r EXCEPT !.transcript = @ + 1, !.pending = @ + 1, !.asked = @ \cup {r.curP},
            !.pc = "wait"]

\* A plausible slip: the hook is invoked on every turn of the agent.
HookDueEveryTurn(r) == r.curP \in r.hooked

\* Whether the start-of-game hook is due for the acting player.
HookDue(r) == r.curP \notin r.agentsStarted /\ r.curP \in r.hooked

TurnBegin(c) ==
  LET r == ctl[c] IN
  /\ r.pc = "turn"
  /\ ctl' = [ctl EXCEPT ![c] =
       IF r.curP \notin r.agents THEN [r EXCEPT !.pc = "sthrow"]
       ELSE IF HookDue(r)
            THEN [r EXCEPT !.startCalls[r.curP] = @ + 1, !.pc = "hook"]
            ELSE RequestMove(r)]
  /\ UNCHANGED <<wasmState, hook, mm>>

HookDone(c) ==
  LET r == ctl[c] IN
  /\ r.pc = "hook"
  /\ ctl' = [ctl EXCEPT ![c] = RequestMove([r EXCEPT !.agentsStarted = @ \cup {r.curP}])]
  /\ UNCHANGED <<wasmState, hook, mm>>

\* The acting agent's getMove promise resolves with move m.
AgentResolve(c, m) ==
  LET r == ctl[c] IN
  /\ r.pc = "wait" /\ r.pending > 0 /\ OthersQuiet(c)
  /\ AdapterValidateMove(wasmState, m) = "false" => r.nInvalid < MaxInvalid
  /\ ctl' = [ctl EXCEPT ![c] = [r EXCEPT !.mv = m, !.pending = @ - 1, !.pc = "got"]]
  /\ UNCHANGED <<wasmState, hook, mm>>

\* The acting agent's getMove promise rejects (timeout, cancel, LLM error).
AgentReject(c) ==
  LET r == ctl[c] IN
  /\ r.pc = "wait" /\ r.pending > 0 /\ OthersQuiet(c)
  /\ ctl' = [ctl EXCEPT ![c] = [r EXCEPT !.pending = @ - 1, !.pc = "threw"]]
  /\ UNCHANGED <<wasmState, hook, mm>>

Validate(c) ==
  LET r == ctl[c]
      v == AdapterValidateMove(wasmState, r.mv)
  IN
  /\ r.pc = "got"
  /\ ctl' = [ctl EXCEPT ![c] = [r EXCEPT !.pc = IF v = "throw" THEN "threw"
                                                 ELSE IF v = "true" THEN "valid"
                                                 ELSE "invalid"]]
  /\ UNCHANGED <<wasmState, hook, mm>>

\* applyMoveAsync is called: the engine is changed now, the controller's
\* currentState only after the await.
Apply(c) ==
  LET r == ctl[c]
      a == AdapterApplyMove(wasmState, r.currentState, r.mv)
  IN
  /\ r.pc = "valid"
  /\ wasmState' = a.ws
  /\ ctl' = [ctl EXCEPT ![c] = IF a.ok
                                THEN [r EXCEPT !.newSt = a.state, !.nApplied = @ + 1,
                                               !.pc = "assign"]
                                ELSE [r EXCEPT !.pc = "threw"]]
  /\ UNCHANGED <<hook, mm>>

Assign(c) ==
  LET r == ctl[c] IN
  /\ r.pc = "assign"
  /\ ctl' = [ctl EXCEPT ![c] = [r EXCEPT !.currentState = r.newSt, !.transcript = @ + 1,
                                         !.retry = NoPlayer, !.pc = "applied"]]
  /\ UNCHANGED <<wasmState, hook, mm>>

\* After the board display of the new state: events, then the opponents' hooks.
Applied(c) ==
  LET r == ctl[c]
      others == (r.agents \ {r.curP}) \cap r.hooked
      e == [r EXCEPT !.transcript = @ + 1, !.evStateChange = @ + 1,
                     !.lastAttempt = [move |-> r.mv, valid |-> TRUE]]
  IN
  /\ r.pc = "applied"
  /\ ctl' = [ctl EXCEPT ![c] = IF others # {}
                                THEN [e EXCEPT !.oppCalls = @ + 1, !.pc = "opp"]
                                ELSE [e EXCEPT !.pc = LoopHead(wasmState)]]
  /\ UNCHANGED <<wasmState, hook, mm>>

OppDone(c) ==
  LET r == ctl[c] IN
  /\ r.pc = "opp"
  /\ ctl' = [ctl EXCEPT ![c] = [r EXCEPT !.pc = LoopHead(wasmState)]]
  /\ UNCHANGED <<wasmState, hook, mm>>

\* A plausible slip: an invalid move is treated like a thrown error.
InvalidBranchFatal(r, ws) ==
  [r EXCEPT !.transcript = @ + 1, !.evAttemptFalse = @ + 1,
            !.lastAttempt = [move |-> r.mv, valid |-> FALSE],
            !.nInvalid = @ + 1, !.retry = r.curP, !.pc = "threw"]

\* The else branch: record the attempt and continue with the same state.
InvalidBranch(r, ws) ==
  [r EXCEPT !.transcript = @ + 1, !.evAttemptFalse = @ + 1,
            !.lastAttempt = [move |-> r.mv, valid |-> FALSE],
            !.nInvalid = @ + 1, !.retry = r.curP, !.pc = LoopHead(ws)]

Invalid(c) ==
  /\ ctl[c].pc = "invalid"
  /\ ctl' = [ctl EXCEPT ![c] = InvalidBranch(ctl[c], wasmState)]
  /\ UNCHANGED <<wasmState, hook, mm>>

\* A plausible slip: the catch block goes on with the next iteration.
CatchBranchContinue(r) ==
  [r EXCEPT !.transcript = @ + 1, !.evError = @ + 1, !.errInLoop = TRUE, !.pc = "notover"]

\* The catch block of the loop: transcript, onError, return.
CatchBranch(r) ==
  [r EXCEPT !.transcript = @ + 1, !.evError = @ + 1, !.errInLoop = TRUE, !.pc = "ret"]

Catch(c) ==
  /\ ctl[c].pc = "threw"
  /\ ctl' = [ctl EXCEPT ![c] = CatchBranch(ctl[c])]
  /\ HookAfter(c, OnErrorCb(hook))
  /\ UNCHANGED <<wasmState, mm>>

\* A plausible slip: no winner is reported as a loss.
VerdictNoDraw(winner, p) == IF winner = p THEN "win" ELSE "loss"

\* The verdict handed to an agent's onGameEnd.
Verdict(winner, p) == IF winner = p THEN "win" ELSE IF winner = NoPlayer THEN "draw" ELSE "loss"

\* endMatch's for loop: invoke the next agent's onGameEnd, or emit onGameEnd.
EndNext(r) ==
  IF r.endTodo # <<>>
  THEN LET p == Head(r.endTodo) IN
       [r EXCEPT !.endCalls[p] = @ + 1, !.endVerdict[p] = Verdict(r.winner, p),
                 !.endTodo = Tail(@), !.pc = "endwait"]
  ELSE [r EXCEPT !.evGameEnd = @ + 1, !.finalWinner = r.currentState.winner, !.pc = "ret"]

\* Agents in Map order (setAgent('player1') precedes setAgent('player2')).
EndOrder(r) ==
  (IF "player1" \in r.agents \cap r.hooked THEN <<"player1">> ELSE <<>>) \o
  (IF "player2" \in r.agents \cap r.hooked THEN <<"player2">> ELSE <<>>)

EndMatch(c) ==
  LET r == ctl[c]
      e == EndNext([r EXCEPT !.winner = AdapterGetWinner(wasmState, r.currentState),
                             !.transcript = @ + 2, !.endTodo = EndOrder(r)])
  IN
  /\ r.pc = "over"
  /\ ctl' = [ctl EXCEPT ![c] = e]
  /\ HookAfter(c, IF e.pc = "ret" THEN OnGameEndCb(hook) ELSE hook)
  /\ UNCHANGED <<wasmState, mm>>

EndHookDone(c) ==
  LET r == ctl[c]
      e == EndNext(r)
  IN
  /\ r.pc = "endwait"
  /\ ctl' = [ctl EXCEPT ![c] = e]
  /\ HookAfter(c, IF e.pc = "ret" THEN OnGameEndCb(hook) ELSE hook)
  /\ UNCHANGED <<wasmState, mm>>

\* startMatch's finally after gameLoop returned.
Finally(c) ==
  LET r == ctl[c] IN
  /\ r.pc = "ret"
  /\ ctl' = [ctl EXCEPT ![c] = [r EXCEPT !.isRunning = FALSE, !.pc = "idle"]]
  /\ UNCHANGED <<wasmState, hook, mm>>

\* startMatch's catch and finally after gameLoop threw; useGameMatch's own
\* catch runs on the rethrown error.
CatchStart(c) ==
  LET r == ctl[c] IN
  /\ r.pc = "sthrow"
  /\ ctl' = [ctl EXCEPT ![c] = [r EXCEPT !.evError = @ + 1, !.isRunning = FALSE,
                                         !.pc = "idle"]]
  /\ HookAfter(c, OnErrorCb(hook))
  /\ UNCHANGED <<wasmState, mm>>

LoopStep(c, M) ==
  \/ StartBoard(c) \/ ResolvePlayer(c) \/ TurnBegin(c) \/ HookDone(c)
  \/ (\E m \in M : AgentResolve(c, m)) \/ AgentReject(c)
  \/ Validate(c) \/ Apply(c) \/ Assign(c) \/ Applied(c) \/ OppDone(c)
  \/ Invalid(c) \/ Catch(c) \/ EndMatch(c) \/ EndHookDone(c)
  \/ Finally(c) \/ CatchStart(c)

\* ------------------------------------------------------------ HumanAgent
\* What submitMove is given: a Partial<Move> (its own playerId, a position or
\* 0 for none, a data string or 0 for none) and the player id.
PartialMoves == [playerId : Players, position : 0..1, data : 0..1]

Promises == 1..MaxPromises

NoPartial == [playerId |-> "player1", position |-> 0, data |-> 0]

\* A promise getMove has not returned yet.
NoPromise == [st |-> "none", value |-> NoPartial, err |-> "none", at |-> 0, end |-> 0]

\* The agent after its constructor: both callbacks null, no timer set.
NoHuman ==
  [moveResolver |-> 0, moveRejecter |-> 0,
   promise |-> [k \in Promises |-> NoPromise],
   timer |-> [k \in Promises |-> "none"],
   now |-> 0, made |-> 0,
   \* observations: the number of method calls, the latest step, and the
   \* arguments of the latest submitMove
   ops |-> 0, op |-> "none", arg |-> [m |-> NoPartial, p |-> "player1"]]

\* resolve(v) / reject(e) of a promise: only a pending promise changes.
Resolve(h, k, v) ==
  IF h.promise[k].st = "pending"
  THEN [h EXCEPT !.promise[k].st = "resolved", !.promise[k].value = v,
                 !.promise[k].end = h.now]
  ELSE h

Reject(h, k, e) ==
  IF h.promise[k].st = "pending"
  THEN [h EXCEPT !.promise[k].st = "rejected", !.promise[k].err = e,
                 !.promise[k].end = h.now]
  ELSE h

ClearCallbacks(h) == [h EXCEPT !.moveResolver = 0, !.moveRejecter = 0]

\* getMove: a new promise whose resolve and reject replace the stored ones,
\* and a timer of five minutes.
HumanGetMove(h) ==
  LET k == h.made + 1 IN
  [h EXCEPT !.made = k, !.moveResolver = k, !.moveRejecter = k,
            !.promise[k] = [NoPromise EXCEPT !.st = "pending", !.at = h.now],
            !.timer[k] = "armed"]

\* A plausible slip: the submitted object is passed on as it is.
FullMoveAsGiven(m, p) == m

\* The move submitMove builds.
FullMove(m, p) == [playerId |-> p, position |-> m.position, data |-> m.data]

SubmitMove(h, m, p) ==
  IF h.moveResolver # 0
  THEN ClearCallbacks(Resolve(h, h.moveResolver, FullMove(m, p)))
  ELSE h

\* A plausible slip: the callbacks are kept after the rejection.
CancelMoveKeep(h) ==
  IF h.moveRejecter # 0 THEN Reject(h, h.moveRejecter, "cancelled") ELSE h

CancelMove(h) ==
  IF h.moveRejecter # 0
  THEN ClearCallbacks(Reject(h, h.moveRejecter, "cancelled"))
  ELSE h

isWaitingForMove(h) == h.moveResolver # 0

\* The callback of the timer getMove set: it reads the agent's fields as they
\* are when it runs.
TimerCallback(h) ==
  IF h.moveRejecter # 0
  THEN ClearCallbacks(Reject(h, h.moveRejecter, "timeout"))
  ELSE h

\* setTimeout(..., 300000)
FiveMinutes == 300000

\* Times are kept in clock steps; a timer set at step t is due from t * TickMs
\* + FiveMinutes on.
Deadline(h, k) == h.promise[k].at * TickMs + FiveMinutes

Due(h, k) == h.timer[k] = "armed" /\ h.now * TickMs >= Deadline(h, k)

Called(h, name) == [h EXCEPT !.ops = @ + 1, !.op = name]

HGetMove ==
  /\ human.made < MaxPromises /\ human.ops < MaxOps
  /\ human' = Called(HumanGetMove(human), "getMove")

HSubmitMove ==
  /\ human.ops < MaxOps
  /\ \E m \in PartialMoves : \E p \in Players :
       human' = [Called(SubmitMove(human, m, p), "submitMove") EXCEPT !.arg = [m |-> m, p |-> p]]

HCancelMove ==
  /\ human.ops < MaxOps
  /\ human' = Called(CancelMove(human), "cancelMove")

\* Timers run in the order they were set, each when its delay has passed.
HTimer ==
  \E k \in Promises :
    /\ Due(human, k) /\ \A j \in 1..(k - 1) : ~Due(human, j)
    /\ human' = [TimerCallback(human) EXCEPT !.timer[k] = "fired", !.op = "timer"]

\* Time passes when no timer is due.
HTick ==
  /\ human.now < MaxTime
  /\ \A k \in Promises : ~Due(human, k)
  /\ human' = [human EXCEPT !.now = @ + 1, !.op = "tick"]

\* ---------------------------------------------------- LLMAgent.parseMove
\* A string is a sequence of one-character strings.
Lower(ch) == IF ch = "A" THEN "a" ELSE IF ch = "B" THEN "b" ELSE ch

toLowerCase(s) == [i \in 1..Len(s) |-> Lower(s[i])]

\* \w of the regular expression: letters, digits and the underscore.
WordChar(ch) == ch \notin {" ", ",", "."}

RECURSIVE TrimStart(_)
TrimStart(s) == IF s # <<>> /\ Head(s) = " " THEN TrimStart(Tail(s)) ELSE s

RECURSIVE TrimEnd(_)
TrimEnd(s) ==
  IF s # <<>> /\ s[Len(s)] = " " THEN TrimEnd(SubSeq(s, 1, Len(s) - 1)) ELSE s

trim(s) == TrimEnd(TrimStart(s))

\* s.includes(t)
StrIncludes(s, t) ==
  \E i \in 0..(Len(s) - Len(t)) : SubSeq(s, i + 1, i + Len(t)) = t

\* content.match(/(\w+)/g): the maximal runs of word characters, in order.
RECURSIVE WordRuns(_, _, _)
WordRuns(s, cur, acc) ==
  IF s = <<>> THEN (IF cur = <<>> THEN acc ELSE Append(acc, cur))
  ELSE IF WordChar(Head(s)) THEN WordRuns(Tail(s), Append(cur, Head(s)), acc)
  ELSE WordRuns(Tail(s), <<>>, IF cur = <<>> THEN acc ELSE Append(acc, cur))

Tokens(s) == WordRuns(s, <<>>, <<>>)

\* list.includes(x)
ListIncludes(list, x) == \E i \in 1..Len(list) : list[i] = x

\* list.find(move => move.toLowerCase() === x.toLowerCase()): the index of the
\* first such element, 0 when there is none.
FindLower(list, x) ==
  LET hits == {i \in 1..Len(list) : toLowerCase(list[i]) = toLowerCase(x)} IN
  IF hits = {} THEN 0 ELSE CHOOSE i \in hits : \A j \in hits : i <= j

\* The for loop over the valid moves: each move is tried for containment as
\* written and then without regard to case, before the next move is looked at.
SubstringLoop(content, list) ==
  LET hits == {i \in 1..Len(list) :
                 \/ StrIncludes(content, list[i])
                 \/ StrIncludes(toLowerCase(content), toLowerCase(list[i]))}
  IN IF hits = {} THEN 0 ELSE CHOOSE i \in hits : \A j \in hits : i <= j

\* The loop over the word tokens: the first token that is a valid move, or
\* equals one without regard to case.
RECURSIVE TokenLoop(_, _)
TokenLoop(toks, list) ==
  IF toks = <<>> THEN <<FALSE, <<>>>>
  ELSE IF ListIncludes(list, Head(toks)) THEN <<TRUE, Head(toks)>>
  ELSE IF FindLower(list, Head(toks)) # 0 THEN <<TRUE, list[FindLower(list, Head(toks))]>>
  ELSE TokenLoop(Tail(toks), list)

\* parseMove(response, state, playerId), list being the valid-move strings of
\* playerId.
parseMove(response, list) ==
  LET content == trim(response) IN
  IF ListIncludes(list, content) THEN content
  ELSE IF FindLower(list, content) # 0 THEN list[FindLower(list, content)]
  ELSE IF SubstringLoop(content, list) # 0 THEN list[SubstringLoop(content, list)]
  ELSE IF TokenLoop(Tokens(content), list)[1] THEN TokenLoop(Tokens(content), list)[2]
  ELSE content

NoParse == [response |-> <<>>, list |-> <<>>, out |-> <<>>, done |-> FALSE]

\* ------------------------------------------------------------- LLMAgent
\* The module's move notation: cell k is the one-character string CellChars[k].
CellChars == <<"1", "2", "3", "4", "5", "6", "7", "8", "9">>

MoveStr(k) == <<CellChars[k]>>

\* move.data of a string that names no cell.
OtherString == NCells + 1

DataOf(str) ==
  IF \E k \in Cells : MoveStr(k) = str
  THEN CHOOSE k \in Cells : MoveStr(k) = str
  ELSE OtherString

RECURSIVE SortedSeq(_)
SortedSeq(S) ==
  IF S = {} THEN <<>>
  ELSE LET x == CHOOSE y \in S : \A z \in S : y <= z
       IN  <<x>> \o SortedSeq(S \ {x})

\* gameEngine.getValidMoves(state) filtered by playerId and mapped to data:
\* the adapter labels every valid move with the engine's current player.
ValidMoveStrings(ws, p) ==
  IF WrapperGetCurrentPlayer(ws).val = p
  THEN LET cells == SortedSeq(get_valid_moves(ws))
       IN  [i \in 1..Len(cells) |-> MoveStr(cells[i])]
  ELSE <<>>

NoError == [kind |-> "none", cause |-> "none", move |-> <<>>, player |-> NoPlayer]

CancelledError == [NoError EXCEPT !.kind = "Agent operation cancelled"]

\* 'LLM GENERATION ERROR: ... failed to generate move: ' followed by the text
\* of the error that was caught.
GenerationError(cause) == [cause EXCEPT !.cause = cause.kind, !.kind = "LLM GENERATION ERROR"]

\* A plausible slip: the message names neither the move nor the player.
InvalidMoveErrorBare(data, p) == [NoError EXCEPT !.kind = "INVALID MOVE"]

\* 'INVALID MOVE: ... generated invalid move "<data>" for player <playerId>'
InvalidMoveError(data, p) == [NoError EXCEPT !.kind = "INVALID MOVE", !.move = data, !.player = p]

ProviderError == [NoError EXCEPT !.kind = "provider"]

EngineError == [NoError EXCEPT !.kind = "WASM implementation error"]

NoLLMAgent ==
  [cancelled |-> FALSE, retryCount |-> 0, phase |-> "idle", outcome |-> "none",
   err |-> NoError, ret |-> NoMove,
   \* observations: getMove calls, LLM calls of the latest getMove, cancel()
   \* and reset() calls
   gets |-> 0, calls |-> 0, cancels |-> 0, resets |-> 0]

NoLLM == [p \in Players |-> NoLLMAgent]

\* A plausible slip: the catch block counts a retry and calls the LLM again.
LLMThrowRetry(a, e) ==
  [a EXCEPT !.retryCount = @ + 1, !.calls = @ + 1, !.phase = "calling"]

\* getMove throws e out of its catch block: the promise rejects.
LLMThrow(a, e) == [a EXCEPT !.phase = "rejected", !.outcome = "threw", !.err = GenerationError(e)]

\* getMove up to its first await: the cancelled check, then the first pass of
\* the loop up to the LLM call.  The prompt is built from the engine's valid
\* moves; a throwing engine query is caught like any other error.
LLMGetMove(a, ws) ==
  LET b == [a EXCEPT !.gets = @ + 1, !.calls = 0, !.outcome = "none", !.err = NoError] IN
  IF a.cancelled
  THEN [b EXCEPT !.phase = "rejected", !.outcome = "threw", !.err = CancelledError]
  ELSE IF ~WrapperGetCurrentPlayer(ws).ok
  THEN LLMThrow([b EXCEPT !.retryCount = 0], EngineError)
  ELSE [b EXCEPT !.retryCount = 0, !.calls = 1, !.phase = "calling"]

\* After the LLM call returned content: parseMove, validateMove, then return
\* the move or throw.
LLMAfterReply(a, ws, p, content) ==
  LET moveData == parseMove(content, ValidMoveStrings(ws, p))
      move == [playerId |-> p, data |-> DataOf(moveData)]
      v == AdapterValidateMove(ws, move)
  IN  IF v = "true" THEN [a EXCEPT !.phase = "resolved", !.outcome = "returned", !.ret = move]
      ELSE IF v = "false" THEN LLMThrow(a, InvalidMoveError(moveData, p))
      ELSE LLMThrow(a, EngineError)

\* A plausible slip: reset leaves the flag as it is.
LLMResetKeep(a) == [a EXCEPT !.retryCount = 0, !.resets = @ + 1]

LLMCancel(a) == [a EXCEPT !.cancelled = TRUE, !.cancels = @ + 1]

LLMReset(a) == [a EXCEPT !.cancelled = FALSE, !.retryCount = 0, !.resets = @ + 1]

AgentsInit == human = NoHuman /\ llm = NoLLM /\ pm = NoParse

\* ------------------------------------------- WasmGameWrapper.getValidMoves
\* The characters a reply of get_valid_moves is made of here: they spell
\* JSON arrays, strings and numbers, and comma-separated lists.
ReplyChars == {"[", "]", "\"", ",", "1", "a", " "}

\* JSON.parse on these characters.  A parsed value is a record of its type
\* t and its content v: the digits of a number, the characters of a string,
\* the values of an array.
JsonFail == [ok |-> FALSE, val |-> [t |-> "none", v |-> <<>>], rest |-> <<>>]

JsonOk(t, v, rest) == [ok |-> TRUE, val |-> [t |-> t, v |-> v], rest |-> rest]

RECURSIVE DigitRun(_)
DigitRun(s) == IF s # <<>> /\ Head(s) = "1" THEN 1 + DigitRun(Tail(s)) ELSE 0

\* Index of the quote that closes the string opened at s[1], or 0.
ClosingQuote(s) ==
  IF \E i \in 2..Len(s) : s[i] = "\""
  THEN CHOOSE i \in 2..Len(s) : s[i] = "\"" /\ \A j \in 2..(i - 1) : s[j] # "\""
  ELSE 0

RECURSIVE JsonValue(_), JsonElements(_, _)
JsonValue(s0) ==
  LET s == TrimStart(s0) IN
  IF s = <<>> THEN JsonFail
  ELSE IF Head(s) = "1"
       THEN LET n == DigitRun(s)
            IN  JsonOk("number", SubSeq(s, 1, n), SubSeq(s, n + 1, Len(s)))
  ELSE IF Head(s) = "\""
       THEN LET e == ClosingQuote(s)
            IN  IF e = 0 THEN JsonFail
                ELSE JsonOk("string", SubSeq(s, 2, e - 1), SubSeq(s, e + 1, Len(s)))
  ELSE IF Head(s) = "["
       THEN LET t == TrimStart(Tail(s))
            IN  IF t # <<>> /\ Head(t) = "]" THEN JsonOk("array", <<>>, Tail(t))
                ELSE JsonElements(Tail(s), <<>>)
  ELSE JsonFail

JsonElements(s, acc) ==
  LET e == JsonValue(s) IN
  IF ~e.ok THEN JsonFail
  ELSE LET r == TrimStart(e.rest) IN
       IF r = <<>> THEN JsonFail
       ELSE IF Head(r) = "," THEN JsonElements(Tail(r), Append(acc, e.val))
       ELSE IF Head(r) = "]" THEN JsonOk("array", Append(acc, e.val), Tail(r))
       ELSE JsonFail

\* [ok |-> FALSE] stands for the SyntaxError JSON.parse throws.
JSONparse(s) ==
  LET e == JsonValue(s)
  IN  IF e.ok /\ TrimStart(e.rest) = <<>> THEN e ELSE JsonFail

\* s.split(',')
RECURSIVE SplitComma(_, _, _)
SplitComma(s, cur, acc) ==
  IF s = <<>> THEN Append(acc, cur)
  ELSE IF Head(s) = "," THEN SplitComma(Tail(s), <<>>, Append(acc, cur))
  ELSE SplitComma(Tail(s), Append(cur, Head(s)), acc)

split(s) == SplitComma(s, <<>>, <<>>)

\* m => m.trim(): a non-empty string is truthy.
NonBlank(m) == trim(m) # <<>>

\* What getValidMoves returns for the reply movesJson.
ParseMoves(movesJson) ==
  LET j == JSONparse(movesJson) IN
  IF j.ok THEN j.val
  ELSE LET items == SelectSeq(split(movesJson), NonBlank)
       IN  [t |-> "array", v |-> [i \in 1..Len(items) |-> [t |-> "string", v |-> items[i]]]]

\* --------------------------------------- WasmGameWrapper: pointers of a query
\* The module's heap as the host sees it: next is the pointer the next
\* allocation gives, live the pointers handed out and not freed.
NoHeap == [next |-> 1, live |-> {}]

\* writeStringToWasm, and a foreign call handing back a string: one more
\* live pointer.
writeStringToWasm(h) == [next |-> h.next + 1, live |-> h.live \cup {h.next}]

\* freeWasmString: exports.free is called only when the module exports it.
freeWasmString(h, ptr, exportsFree) ==
  IF exportsFree THEN [h EXCEPT !.live = @ \ {ptr}] ELSE h

\* Where a query can throw: nowhere, in its last writeStringToWasm (malloc
\* or memory.grow fails), or in the foreign call (the module traps).
Failures == {"none", "write", "call"}

\* A query that writes the state, calls the module for a string, reads it
\* and frees both pointers: getValidMoves, getWinner, render,
\* getCurrentPlayer.
StringQuery(h, exportsFree, fail) ==
  IF fail = "write" THEN [heap |-> h, threw |-> TRUE]
  ELSE
    LET statePtr == h.next
        h1 == writeStringToWasm(h)
    IN  IF fail = "call" THEN [heap |-> h1, threw |-> TRUE]
        ELSE LET resultPtr == h1.next
                 h2 == writeStringToWasm(h1)
             IN  [heap |-> freeWasmString(freeWasmString(h2, statePtr, exportsFree),
                                          resultPtr, exportsFree),
                  threw |-> FALSE]

WasmApplyMove(h, exportsFree, fail) ==
  LET statePtr == h.next
      h1 == writeStringToWasm(h)
  IN  IF fail = "write" THEN [heap |-> h1, threw |-> TRUE]
      ELSE
        LET movePtr == h1.next
            h2 == writeStringToWasm(h1)
        IN  IF fail = "call" THEN [heap |-> h2, threw |-> TRUE]
            ELSE LET newStatePtr == h2.next
                     h3 == writeStringToWasm(h2)
                 IN  [heap |-> freeWasmString(
                                 freeWasmString(
                                   freeWasmString(h3, statePtr, exportsFree),
                                   movePtr, exportsFree),
                                 newStatePtr, exportsFree),
                      threw |-> FALSE]

\* is_game_over returns a number: only the state pointer is in play.
WasmIsGameOver(h, exportsFree, fail) ==
  IF fail = "write" THEN [heap |-> h, threw |-> TRUE]
  ELSE
    LET statePtr == h.next
        h1 == writeStringToWasm(h)
    IN  IF fail = "call" THEN [heap |-> h1, threw |-> TRUE]
        ELSE [heap |-> freeWasmString(h1, statePtr, exportsFree), threw |-> FALSE]

\* getCurrentPlayer touches the module only when it has the export.
WasmCurrentPlayerQuery(h, exportsFree, exported, fail) ==
  IF exported THEN StringQuery(h, exportsFree, fail)
  ELSE [heap |-> h, threw |-> FALSE]

\* ------------------------------------------------------------- LLMService
\* How the fetch of a callLLM call ends: with a response of some status,
\* with the AbortError the timeout's controller.abort() causes, or with the
\* error fetch throws when the request cannot be made (its message differs
\* between browsers).
HttpStatuses == {200, 400, 401, 403, 404, 429, 500, 503}

FetchMessages ==
  {"Failed to fetch", "NetworkError when attempting to fetch resource."}

FetchOutcomes ==
  [mode : {"http"}, status : HttpStatuses, message : {""}]
    \cup [mode : {"abort"}, status : {0}, message : {"The operation was aborted."}]
    \cup [mode : {"fetch"}, status : {0}, message : FetchMessages]

\* error.message.includes('Failed to fetch')
IncludesFailedToFetch(message) == message = "Failed to fetch"

createLLMError(status) ==
  IF status = 401 \/ status = 403 THEN [type |-> "auth", code |-> "invalid_api_key"]
  ELSE IF status = 429 THEN [type |-> "rate_limit", code |-> "rate_limit_exceeded"]
  ELSE IF status = 400 THEN [type |-> "invalid_request", code |-> "invalid_request"]
  ELSE IF status = 408 \/ status = 0 THEN [type |-> "timeout", code |-> "request_timeout"]
  ELSE IF status >= 500 THEN [type |-> "server_error", code |-> "server_error"]
  ELSE [type |-> "server_error", code |-> "provider_error"]

\* What callLLM gives for a fetch outcome: a response, a thrown LLMError of
\* some type, or the caught error thrown again as it is (type "raw").
callLLM(o) ==
  IF o.mode = "http"
  THEN IF o.status >= 200 /\ o.status <= 299
       THEN [threw |-> FALSE, type |-> "none", code |-> "none"]
       ELSE LET e == createLLMError(o.status)
            IN  [threw |-> TRUE, type |-> e.type, code |-> e.code]
  ELSE IF o.mode = "abort"
       THEN LET e == createLLMError(408)
            IN  [threw |-> TRUE, type |-> e.type, code |-> e.code]
  ELSE IF IncludesFailedToFetch(o.message)
       THEN LET e == createLLMError(0)
            IN  [threw |-> TRUE, type |-> e.type, code |-> e.code]
  ELSE [threw |-> TRUE, type |-> "raw", code |-> "none"]

\* --------------------------------------------------------- WasmGameLoader
\* A candidate module as the loader meets it: whether its bytes compile
\* (they begin with the magic header and are well formed), whether it
\* exports a memory, which required functions it lacks, and what its fresh
\* instance answers: the initial state, the get_valid_moves reply, the
\* rendering, the state after a move, and whether a query throws.
RequiredFunctions ==
  {"get_initial_state", "get_valid_moves", "apply_move", "is_game_over",
   "get_winner", "render"}

GoodModule ==
  [compiles |-> TRUE, memory |-> TRUE, missing |-> {}, initial |-> "state",
   moves |-> <<"[", "\"", "a", "\"", "]">>, render |-> "board", apply |-> "state",
   traps |-> FALSE]

CandidateModules ==
  {GoodModule,
   [GoodModule EXCEPT !.moves = <<"[", "]">>],
   [GoodModule EXCEPT !.initial = ""],
   [GoodModule EXCEPT !.moves = <<"1">>],
   [GoodModule EXCEPT !.render = ""],
   [GoodModule EXCEPT !.apply = ""],
   [GoodModule EXCEPT !.traps = TRUE],
   [GoodModule EXCEPT !.compiles = FALSE],
   [GoodModule EXCEPT !.memory = FALSE],
   [GoodModule EXCEPT !.missing = {"render"}],
   [GoodModule EXCEPT !.missing = {"get_winner", "apply_move"}]}

\* The metadata record: its name, and whether tags, when given, is an array.
GoodMetadata == [name |-> <<"G">>, tagsIsArray |-> TRUE]

Metadatas ==
  {GoodMetadata, [GoodMetadata EXCEPT !.name = <<" ">>],
   [GoodMetadata EXCEPT !.tagsIsArray = FALSE]}

\* validateWasmGame: hasMemory && hasRequiredFunctions, false when the
\* bytes do not compile.
validateWasmGame(m) == m.compiles /\ m.memory /\ m.missing \cap RequiredFunctions = {}

\* const forceValidation = true
forceValidation == TRUE

validateMetadata(metadata) ==
  (IF Len(trim(metadata.name)) = 0
   THEN <<"Metadata must have a valid name (non-empty string)">> ELSE <<>>)
  \o (IF ~metadata.tagsIsArray THEN <<"Tags must be an array if provided">> ELSE <<>>)

\* WasmGameWrapper.initialize: compile, instantiate, validateExports (the
\* six functions; the memory is not looked at).
initialize(m) == m.compiles /\ m.missing \cap RequiredFunctions = {}

\* A plausible slip: the first valid move is not applied.
testGameEngineNoApply(m) ==
  IF ~m.memory \/ m.traps THEN [success |-> FALSE, error |-> "exception"]
  ELSE IF m.initial = ""
       THEN [success |-> FALSE, error |-> "getInitialState() returned empty result"]
  ELSE IF ParseMoves(m.moves).t # "array"
       THEN [success |-> FALSE, error |-> "getValidMoves() did not return an array"]
  ELSE IF m.render = ""
       THEN [success |-> FALSE, error |-> "render() returned empty result"]
  ELSE [success |-> TRUE, error |-> ""]

\* The smoke test on the fresh instance.  Without a memory the first read
\* throws; isGameOver() is result === 1, a boolean whatever the module
\* returns, so that check cannot fail.
testGameEngine(m) ==
  IF ~m.memory \/ m.traps THEN [success |-> FALSE, error |-> "exception"]
  ELSE IF m.initial = ""
       THEN [success |-> FALSE, error |-> "getInitialState() returned empty result"]
  ELSE IF ParseMoves(m.moves).t # "array"
       THEN [success |-> FALSE, error |-> "getValidMoves() did not return an array"]
  ELSE IF m.render = ""
       THEN [success |-> FALSE, error |-> "render() returned empty result"]
  ELSE IF Len(ParseMoves(m.moves).v) > 0 /\ m.apply = ""
       THEN [success |-> FALSE, error |-> "applyMove() returned empty result"]
  ELSE [success |-> TRUE, error |-> ""]

\* A game id: game_<n>_<t>.
NoId == [n |-> 0, t |-> 0]

Failure(error, validationErrors) ==
  [success |-> FALSE, error |-> error, validationErrors |-> validationErrors, id |-> NoId]

\* The part of loadGameFromBytes that decides: validation, instantiation
\* (createWasmGame throws into the catch block), smoke test.
LoadDecision(m, metadata) ==
  LET isValidWasm == validateWasmGame(m)
      validationErrors ==
        (IF ~isValidWasm /\ ~forceValidation
         THEN <<"WASM module does not implement required game interface">> ELSE <<>>)
        \o validateMetadata(metadata)
  IN  IF Len(validationErrors) > 0 THEN Failure("Game validation failed", validationErrors)
      ELSE IF ~initialize(m) THEN Failure("Failed to load game", <<>>)
      ELSE IF ~testGameEngine(m).success THEN Failure("Game engine test failed", <<>>)
      ELSE [success |-> TRUE, error |-> "", validationErrors |-> <<>>, id |-> NoId]

\* A plausible slip: the id is made of the time alone.
generateGameIdNoCounter(l) == [n |-> 0, t |-> l.now]

\* generateGameId: `game_${++this.gameIdCounter}_${Date.now()}`
generateGameId(l) == [n |-> l.gameIdCounter + 1, t |-> l.now]

Ids(games) == {games[i].id : i \in 1..Len(games)}

\* Map.set: an entry of the same key is replaced where it is, a new one
\* is put last.
MapSet(games, g) ==
  IF g.id \in Ids(games)
  THEN [i \in 1..Len(games) |-> IF games[i].id = g.id THEN g ELSE games[i]]
  ELSE Append(games, g)

KeepOthers(games, id) ==
  LET Other(g) == g.id # id IN SelectSeq(games, Other)

\* persistGames: both keys are written from the registry; when setItem
\* throws on the games key (quota) the error is caught and nothing is
\* written.
PersistModes == {"ok", "quota"}

persistGames(l, mode) ==
  LET gameFiles == [i \in 1..Len(l.loadedGames) |->
                      [id |-> l.loadedGames[i].id, mod |-> l.loadedGames[i].mod]]
      gameMetadata == Ids(l.loadedGames)
  IN  IF mode = "quota" THEN l
      ELSE [l EXCEPT !.store = [hasGames |-> TRUE, hasMetadata |-> TRUE,
                                corrupt |-> FALSE, games |-> gameFiles,
                                metadata |-> gameMetadata]]

\* A plausible slip: the id is taken before the module is tested.
LoadGameFromBytesEagerId(l, m, metadata, mode) ==
  LET d == LoadDecision(m, metadata)
      gameId == generateGameId(l)
      counted == [l EXCEPT !.gameIdCounter = @ + 1]
  IN  IF ~d.success THEN [counted EXCEPT !.last = [mod |-> m, metadata |-> metadata, result |-> d]]
      ELSE LET set == [counted EXCEPT !.loadedGames =
                         MapSet(@, [id |-> gameId, mod |-> m, metadata |-> metadata])]
           IN  [persistGames(set, mode) EXCEPT
                  !.last = [mod |-> m, metadata |-> metadata,
                            result |-> [d EXCEPT !.id = gameId]]]

\* loadGameFromBytes from its last await on: the result, and on success the
\* id, the registry entry and the persisted copy.
LoadGameFromBytes(l, m, metadata, mode) ==
  LET d == LoadDecision(m, metadata) IN
  IF ~d.success THEN [l EXCEPT !.last = [mod |-> m, metadata |-> metadata, result |-> d]]
  ELSE LET gameId == generateGameId(l)
           set == [l EXCEPT !.gameIdCounter = @ + 1,
                            !.loadedGames =
                              MapSet(@, [id |-> gameId, mod |-> m, metadata |-> metadata])]
       IN  [persistGames(set, mode) EXCEPT
              !.last = [mod |-> m, metadata |-> metadata,
                        result |-> [d EXCEPT !.id = gameId]]]

removeGame(l, gameId, mode) ==
  IF gameId \in Ids(l.loadedGames)
  THEN persistGames([l EXCEPT !.loadedGames = KeepOthers(@, gameId)], mode)
  ELSE l

clearAllGames(l, mode) ==
  persistGames([l EXCEPT !.loadedGames = <<>>, !.gameIdCounter = 0], mode)

\* loadPersistedGames up to its first await: the two keys are read and
\* parsed; the entries still to visit wait in todo, gameFiles and metadata
\* are the two parsed objects.
\* A missing key or a parse error ends the pass at once.
RestoreBegin(store) ==
  IF ~store.hasGames \/ ~store.hasMetadata \/ store.corrupt
  THEN [todo |-> <<>>, metadata |-> {}, gameFiles |-> <<>>]
  ELSE [todo |-> store.games, metadata |-> store.metadata, gameFiles |-> store.games]

\* A plausible slip: the first entry that fails ends the pass.
RestoreEntryAbort(l) ==
  LET e == Head(l.restore.todo)
      rest == [l EXCEPT !.restore.todo = Tail(@)]
  IN  IF e.id \notin l.restore.metadata \/ ~initialize(e.mod)
      THEN [l EXCEPT !.restore.todo = <<>>]
      ELSE [rest EXCEPT !.loadedGames =
              MapSet(@, [id |-> e.id, mod |-> e.mod, metadata |-> GoodMetadata])]

\* One turn of the for loop: an entry without metadata is passed over, one
\* whose createWasmGame throws is logged, any other is set in the registry
\* under its persisted id.
RestoreEntry(l) ==
  LET e == Head(l.restore.todo)
      rest == [l EXCEPT !.restore.todo = Tail(@)]
  IN  IF e.id \notin l.restore.metadata THEN rest
      ELSE IF ~initialize(e.mod) THEN rest
      ELSE [rest EXCEPT !.loadedGames =
              MapSet(@, [id |-> e.id, mod |-> e.mod, metadata |-> GoodMetadata])]

\* whenReady resolves once the pass has run through.
Ready(l) == l.restore.todo = <<>>

NoStore ==
  [hasGames |-> FALSE, hasMetadata |-> FALSE, corrupt |-> FALSE, games |-> <<>>,
   metadata |-> {}]

NoLoad == [mod |-> GoodModule, metadata |-> GoodMetadata,
           result |-> Failure("none", <<>>)]

\* new WasmGameLoader() over a store, at time now.
NewLoader(store, now) ==
  [loadedGames |-> <<>>, gameIdCounter |-> 0, store |-> store, now |-> now,
   restore |-> RestoreBegin(store), last |-> NoLoad,
   \* observations: the latest step, the number of calls and reloads so
   \* far, whether clearAllGames was called in this session
   op |-> "new", calls |-> 0, cleared |-> FALSE]

\* The loader of the next page session: the store and the clock go on.
Reloaded(l) == [NewLoader(l.store, l.now + 1) EXCEPT !.calls = l.calls + 1]

\* ------------------------------------------------------------ host state
\* The adapter, wrapper query, loader and service a match does not step.
NoAdp ==
  [mod |-> [hasCurrentPlayer |-> TRUE, player |-> "player1", applyError |-> FALSE,
            over |-> FALSE, winner |-> ""],
   op |-> "none", out |-> Returned(NoPlayer, "none", NoPlayer), result |-> "ongoing"]

NoWq ==
  [free |-> TRUE, hasCurrentPlayer |-> TRUE, reply |-> <<"[", "]">>,
   heap |-> NoHeap, n |-> 0, op |-> "none", threw |-> FALSE,
   out |-> [t |-> "none", v |-> <<>>]]

NoLdr == NewLoader(NoStore, 1)

\* calls: the callLLM calls made so far, each with how its fetch ended and
\* what the call gave.
NoSvc == [calls |-> <<>>]

HostInit == adp = NoAdp /\ wq = NoWq /\ ldr = NoLdr /\ svc = NoSvc

\* --------------------------------------------- one controller, direct API
NoHook == [global |-> 0, ref |-> 0, isPlaying |-> FALSE, isGameOver |-> FALSE,
           error |-> FALSE, made |-> 0]

FreeSlot == [pc |-> "free", c |-> 1, move |-> NoMove, newSt |-> AdapterGetInitialState.state]

Init ==
  /\ wasmState = AdapterGetInitialState.ws
  /\ \E agents \in SUBSET Players : \E hooked \in SUBSET agents :
       ctl = [c \in Ctl |-> IF c = 1
                            THEN NewController(AdapterGetInitialState.state, agents, hooked, FALSE)
                            ELSE NotMade]
  /\ hook = NoHook
  /\ mm = [k \in Slots |-> FreeSlot]
  /\ AgentsInit
  /\ HostInit

Next == (StartMatch(1) \/ LoopStep(1, MoveSet)) /\ UNCHANGED <<agentVars, hostVars>>

Spec == Init /\ [][Next]_vars


\* ------------------------------------------- agents whose hooks may throw
\* onGameStart is awaited outside the loop's try block: its rejection leaves
\* gameLoop and reaches startMatch's catch.
HookFail(c) ==
  LET r == ctl[c] IN
  /\ r.pc = "hook"
  /\ ctl' = [ctl EXCEPT ![c] = [r EXCEPT !.pc = "sthrow"]]
  /\ UNCHANGED <<wasmState, hook, mm>>

\* onOpponentMove is awaited inside the try block: the loop's catch takes it.
OppFail(c) ==
  LET r == ctl[c] IN
  /\ r.pc = "opp"
  /\ ctl' = [ctl EXCEPT ![c] = [r EXCEPT !.pc = "threw"]]
  /\ UNCHANGED <<wasmState, hook, mm>>

\* An agent's onGameEnd rejects: endMatch throws before it emits onGameEnd.
EndHookFail(c) ==
  LET r == ctl[c] IN
  /\ r.pc = "endwait"
  /\ ctl' = [ctl EXCEPT ![c] = [r EXCEPT !.pc = "sthrow"]]
  /\ UNCHANGED <<wasmState, hook, mm>>

NextFaulty ==
  /\ \/ StartMatch(1) \/ LoopStep(1, MoveSet)
     \/ HookFail(1) \/ OppFail(1) \/ EndHookFail(1)
  /\ UNCHANGED <<agentVars, hostVars>>

SpecFaulty == Init /\ [][NextFaulty]_vars


\* -------------------------------------------- MatchController.makeMove
\* makeMove up to its first await: validateMoveAsync queries the engine.
MMCall(k, c, m) ==
  LET v == AdapterValidateMove(wasmState, m) IN
  /\ mm[k].pc = "free" /\ \A j \in 1..(k - 1) : mm[j].pc # "free"
  /\ ctl[c].made
  /\ mm' = [mm EXCEPT ![k] = IF v = "true"
                              THEN [@ EXCEPT !.c = c, !.move = m, !.pc = "validated"]
                              ELSE [@ EXCEPT !.c = c, !.pc = "done"]]
  /\ UNCHANGED <<wasmState, ctl, hook>>

\* After the await: applyMoveAsync(this.currentState, move) changes the engine.
MMApply(k) ==
  LET s == mm[k]
      a == AdapterApplyMove(wasmState, ctl[s.c].currentState, s.move)
  IN
  /\ s.pc = "validated"
  /\ wasmState' = a.ws
  /\ mm' = [mm EXCEPT ![k] = IF a.ok THEN [s EXCEPT !.newSt = a.state, !.pc = "assign"]
                              ELSE [s EXCEPT !.pc = "done"]]
  /\ ctl' = IF a.ok THEN [ctl EXCEPT ![s.c].nApplied = @ + 1] ELSE ctl
  /\ UNCHANGED hook

\* After the second await: this.currentState = ..., onStateChange, return true.
MMAssign(k) ==
  LET s == mm[k] IN
  /\ s.pc = "assign"
  /\ ctl' = [ctl EXCEPT ![s.c].currentState = s.newSt, ![s.c].evStateChange = @ + 1]
  /\ mm' = [mm EXCEPT ![k].pc = "done"]
  /\ UNCHANGED <<wasmState, hook>>

MakeMoveStep(c) ==
  \/ (\E k \in Slots : \E m \in MoveSet : MMCall(k, c, m))
  \/ (\E k \in Slots : MMApply(k))
  \/ (\E k \in Slots : MMAssign(k))

\* The moves of agents that answer in the name of the player that was asked,
\* with a cell name.
AskedMoves(c) == [playerId : {ctl[c].curP}, data : Cells]

\* One match of one controller whose two agents define every hook, with
\* makeMove calls arriving at any time.
InitMM ==
  /\ wasmState = AdapterGetInitialState.ws
  /\ ctl = [c \in Ctl |-> IF c = 1
                           THEN NewController(AdapterGetInitialState.state, Players, Players, FALSE)
                           ELSE NotMade]
  /\ hook = NoHook
  /\ mm = [k \in Slots |-> FreeSlot]
  /\ AgentsInit
  /\ HostInit

FirstStart(c) == ctl[c].runs = 0 /\ StartMatch(c)

NextMM ==
  (FirstStart(1) \/ LoopStep(1, AskedMoves(1)) \/ MakeMoveStep(1)) /\ UNCHANGED <<agentVars, hostVars>>

SpecMM == InitMM /\ [][NextMM]_vars

\* One match, with or without an agent for each player; an agent answers in
\* its own name, with a cell name or with a payload that is not a string.
OwnMoves(c) == {m \in MoveSet : m.playerId = ctl[c].curP}

NextMatch ==
  (FirstStart(1) \/ LoopStep(1, OwnMoves(1))) /\ UNCHANGED <<agentVars, hostVars>>

SpecMatch == Init /\ [][NextMatch]_vars

\* Every continuation of the controller is a queued task and every awaited
\* agent call settles: a step of the loop that can be taken is taken.
SpecFair ==
  SpecMatch /\ WF_vars(LoopStep(1, OwnMoves(1)) /\ UNCHANGED <<hook, mm, agentVars, hostVars>>)

\* ------------------------------------------------------- useGameMatch
\* startMatch of the hook, up to the await of controller.startMatch(): the
\* guard on the global, the constructor (which resets the engine to its
\* initial state), the assignment of the global from the ref, setAgent twice,
\* the ref, and the body of controller.startMatch up to its first await.
HookGuard(h) == h.global # 0

\* The wrapper's state when the loader has registered a game: testGameEngine
\* asked for the initial state and applied validMoves[0] to it.
SmokeTestedState ==
  LET s0 == get_initial_state
      validMoves == get_valid_moves(s0)
  IN  IF validMoves = {} THEN s0
      ELSE apply_move(s0, CHOOSE m \in validMoves : \A n \in validMoves : m <= n)

\* A plausible slip: the constructor takes the engine as it finds it.
HookStartMatchKeepEngine ==
  LET c == hook.made + 1
      g == AdapterGetInitialState
  IN
  /\ Quiet
  /\ ~HookGuard(hook)
  /\ hook.made < MaxCtl
  /\ wasmState' = wasmState
  /\ ctl' = [ctl EXCEPT ![c] = StartMatchBody(NewController(g.state, Players, Players, TRUE))]
  /\ hook' = [hook EXCEPT !.isPlaying = TRUE, !.isGameOver = FALSE, !.error = FALSE,
                          !.global = hook.ref, !.ref = c, !.made = c]
  /\ UNCHANGED mm

HookStartMatch ==
  LET c == hook.made + 1
      g == AdapterGetInitialState
  IN
  /\ Quiet
  /\ ~HookGuard(hook)
  /\ hook.made < MaxCtl
  /\ wasmState' = g.ws
  /\ ctl' = [ctl EXCEPT ![c] = StartMatchBody(NewController(g.state, Players, Players, TRUE))]
  /\ hook' = [hook EXCEPT !.isPlaying = TRUE, !.isGameOver = FALSE, !.error = FALSE,
                          !.global = hook.ref, !.ref = c, !.made = c]
  /\ UNCHANGED mm

\* A start request that the guard turns away.
HookStartRefused ==
  /\ Quiet
  /\ HookGuard(hook)
  /\ UNCHANGED vars

MarkStopped(cs, c) == IF c = 0 THEN cs ELSE [cs EXCEPT ![c].stopped = TRUE]

HookStopMatch ==
  /\ Quiet
  /\ hook.ref # 0
  /\ hook' = [hook EXCEPT !.ref = 0, !.global = 0, !.isPlaying = FALSE, !.error = FALSE]
  /\ ctl' = MarkStopped(ctl, hook.ref)
  /\ UNCHANGED <<wasmState, mm>>

HookResetMatch ==
  /\ Quiet
  /\ hook.ref # 0
  /\ hook' = [hook EXCEPT !.ref = 0, !.global = 0, !.isPlaying = FALSE, !.error = FALSE,
                          !.isGameOver = FALSE]
  /\ ctl' = MarkStopped(ctl, hook.ref)
  /\ UNCHANGED <<wasmState, mm>>

InitHook ==
  /\ wasmState = AdapterGetInitialState.ws
  /\ ctl = [c \in Ctl |-> NotMade]
  /\ hook = NoHook
  /\ mm = [k \in Slots |-> FreeSlot]
  /\ AgentsInit
  /\ HostInit

NextHook ==
  /\ \/ HookStartMatch \/ HookStartRefused \/ HookStopMatch \/ HookResetMatch
     \/ (\E c \in Ctl : LoopStep(c, AskedMoves(c)))
  /\ UNCHANGED <<agentVars, hostVars>>

SpecHook == InitHook /\ [][NextHook]_vars

\* The hook over a game as the loader registered it: the smoke test's move is
\* still in the wrapper when the first match is started.
InitLoaded ==
  /\ wasmState = SmokeTestedState
  /\ ctl = [c \in Ctl |-> NotMade]
  /\ hook = NoHook
  /\ mm = [k \in Slots |-> FreeSlot]
  /\ AgentsInit
  /\ HostInit

\* Agents that name one of the first two cells: the first cell ends the
\* game, the second is free once.
FirstCells(c) == {m \in AskedMoves(c) : m.data <= 2}

NextLoaded ==
  /\ \/ HookStartMatch \/ HookStartRefused \/ HookStopMatch \/ HookResetMatch
     \/ (\E c \in Ctl : LoopStep(c, FirstCells(c)))
  /\ UNCHANGED <<agentVars, hostVars>>

SpecLoaded == InitLoaded /\ [][NextLoaded]_vars


\* ------------------------------- one match and one makeMove call beside it
\* The loop of one controller and a single makeMove call that names a cell.
CellMoves == [playerId : Players, data : Cells]

NextRace ==
  /\ \/ FirstStart(1) \/ LoopStep(1, AskedMoves(1))
     \/ (\E m \in CellMoves : MMCall(1, 1, m))
     \/ MMApply(1) \/ MMAssign(1)
  /\ UNCHANGED <<agentVars, hostVars>>

SpecRace == InitMM /\ [][NextRace]_vars

\* --------------------------------------------- the standalone HumanAgent
\* One HumanAgent driven through its public methods, with its timers.
NextHuman ==
  /\ HGetMove \/ HSubmitMove \/ HCancelMove \/ HTimer \/ HTick
  /\ UNCHANGED <<wasmState, ctl, hook, mm, llm, pm, hostVars>>

SpecHuman == InitHook /\ [][NextHuman]_vars

\* ------------------------------------------- a match of two LLM agents
\* What the LLM may answer: a cell name, a cell name inside other text, or
\* text that names no move.
Replies == {MoveStr(k) : k \in Cells} \cup {<<"x">>, <<" ", "2", ".">>}

LLMSettled == \A p \in Players : llm[p].phase \in {"idle", "calling"}

\* The steps of the loop that do not touch an agent's getMove.
LLMLoopInner(c) ==
  /\ \/ StartBoard(c) \/ ResolvePlayer(c)
     \/ Validate(c) \/ Apply(c) \/ Assign(c) \/ Applied(c) \/ OppDone(c)
     \/ Invalid(c) \/ Catch(c) \/ EndMatch(c) \/ EndHookDone(c)
     \/ Finally(c) \/ CatchStart(c)
  /\ UNCHANGED llm

\* The steps that may call agent.getMove: the call runs getMove up to its
\* first await.
LLMRequest(c) ==
  /\ TurnBegin(c) \/ HookDone(c)
  /\ llm' = IF ctl'[c].pending > ctl[c].pending
            THEN [llm EXCEPT ![ctl'[c].curP] = LLMGetMove(@, wasmState)]
            ELSE llm

\* The LLM call of player p's agent returns content, or fails.
LLMReply(p, content) ==
  /\ llm[p].phase = "calling" /\ Quiet
  /\ llm' = [llm EXCEPT ![p] = LLMAfterReply(@, wasmState, p, content)]
  /\ UNCHANGED <<wasmState, ctl, hook, mm>>

LLMFail(p) ==
  /\ llm[p].phase = "calling" /\ Quiet
  /\ llm' = [llm EXCEPT ![p] = LLMThrow(@, ProviderError)]
  /\ UNCHANGED <<wasmState, ctl, hook, mm>>

\* The controller's await of getMove continues with the move or the error.
LLMResolved(c) ==
  /\ llm[ctl[c].curP].phase = "resolved"
  /\ AgentResolve(c, llm[ctl[c].curP].ret)
  /\ llm' = [llm EXCEPT ![ctl[c].curP].phase = "idle"]

LLMRejected(c) ==
  /\ llm[ctl[c].curP].phase = "rejected"
  /\ AgentReject(c)
  /\ llm' = [llm EXCEPT ![ctl[c].curP].phase = "idle"]

\* cancel() and reset() of an agent, called from outside the loop.
LLMCancelCall(p) ==
  /\ Quiet /\ LLMSettled /\ llm[p].cancels < MaxCancels
  /\ llm' = [llm EXCEPT ![p] = LLMCancel(@)]
  /\ UNCHANGED <<wasmState, ctl, hook, mm>>

LLMResetCall(p) ==
  /\ Quiet /\ LLMSettled /\ llm[p].resets < MaxResets
  /\ llm' = [llm EXCEPT ![p] = LLMReset(@)]
  /\ UNCHANGED <<wasmState, ctl, hook, mm>>

\* One match: the controller is started once.
LLMStart(c) == FirstStart(c) /\ UNCHANGED llm

NextLLM ==
  /\ \/ LLMStart(1) \/ LLMLoopInner(1) \/ LLMRequest(1)
     \/ (\E p \in Players : \E content \in Replies : LLMReply(p, content))
     \/ (\E p \in Players : LLMFail(p))
     \/ LLMResolved(1) \/ LLMRejected(1)
     \/ (\E p \in Players : LLMCancelCall(p))
     \/ (\E p \in Players : LLMResetCall(p))
  /\ UNCHANGED <<human, pm, hostVars>>

SpecLLM == InitMM /\ [][NextLLM]_vars

\* ------------------------------------------------- parseMove on its own
Letters == {"a", "A", "b", " "}

Responses == UNION {[1..n -> Letters] : n \in 0..MaxLen}

MoveNames == {<<"a">>, <<"A">>, <<"b">>, <<"a", "b">>}

MoveLists ==
  {<<>>} \cup {<<x>> : x \in MoveNames}
         \cup {<<x, y>> : x \in MoveNames, y \in MoveNames}

InitParse ==
  /\ wasmState = AdapterGetInitialState.ws
  /\ ctl = [c \in Ctl |-> NotMade]
  /\ hook = NoHook
  /\ mm = [k \in Slots |-> FreeSlot]
  /\ human = NoHuman /\ llm = NoLLM
  /\ HostInit
  /\ pm \in [response : Responses, list : MoveLists, out : {<<>>}, done : {FALSE}]

ParseCall ==
  /\ ~pm.done
  /\ pm' = [pm EXCEPT !.out = parseMove(pm.response, pm.list), !.done = TRUE]
  /\ UNCHANGED <<wasmState, ctl, hook, mm, human, llm, hostVars>>

NextParse == ParseCall

SpecParse == InitParse /\ [][NextParse]_vars

\* ------------------------------- the adapter's calls on a module's replies
\* Everything of a match at rest.
MatchIdle ==
  /\ wasmState = AdapterGetInitialState.ws
  /\ ctl = [c \in Ctl |-> NotMade]
  /\ hook = NoHook
  /\ mm = [k \in Slots |-> FreeSlot]
  /\ AgentsInit

matchVars == <<wasmState, ctl, hook, mm, agentVars>>

InitAdapter ==
  /\ MatchIdle
  /\ adp \in [mod : Modules, op : {"none"}, out : {NoAdp.out}, result : {"ongoing"}]
  /\ wq = NoWq /\ ldr = NoLdr /\ svc = NoSvc

\* adp.result is the result field of the GameState the match holds: that of
\* the last state getInitialState or applyMove returned.
AdpDone(op, out) ==
  adp' = [adp EXCEPT !.op = op, !.out = out,
                     !.result = IF ~out.threw /\ out.result # "none"
                                THEN out.result ELSE @]

AdpGetInitialState == AdpDone("getInitialState", ModuleGetInitialState(adp.mod))

AdpGetValidMoves == AdpDone("getValidMoves", ModuleGetValidMoves(adp.mod))

AdpApplyMove == AdpDone("applyMove", ModuleApplyMove(adp.mod))

AdpGetCurrentPlayer == AdpDone("getCurrentPlayer", ModuleGetCurrentPlayer(adp.mod))

AdpGetWinner == AdpDone("getWinner", ModuleGetWinner(adp.mod, adp.result))

NextAdapter ==
  /\ \/ AdpGetInitialState
     \/ AdpGetValidMoves
     \/ AdpApplyMove
     \/ AdpGetCurrentPlayer
     \/ AdpGetWinner
  /\ UNCHANGED <<matchVars, wq, ldr, svc>>

SpecAdapter == InitAdapter /\ [][NextAdapter]_vars

\* ================================================================ claims
Made == {c \in Ctl : ctl[c].made}

\* C1: at every point of a match the controller's currentState.moves has one
\* entry per move the controller applied (an application whose result the
\* controller has not stored yet counts one less), its currentPlayer is the
\* player the engine reports for that state, and, outside that gap, for the
\* engine's current state.
C1_MovesAndPlayer ==
  \A c \in Made :
    LET r == ctl[c] IN
    /\ Len(r.currentState.moves) = r.nApplied - (IF r.pc = "assign" THEN 1 ELSE 0)
    /\ r.currentState.currentPlayer = get_current_player(r.currentState.board)
    /\ r.pc # "assign" => r.currentState.currentPlayer = get_current_player(wasmState)

C1_Witness ==
  \E c \in Made : ctl[c].nApplied >= 2 /\ ctl[c].nInvalid >= 1 /\ ctl[c].pc = "wait"

\* C2: a move that fails validateMove leaves currentState unchanged, is
\* reported as onMoveAttempt(move, false) with no onStateChange and no
\* onOpponentMove, does not end the match, and the next getMove request goes
\* to the same player's agent.
C2_InvalidMoveFrame ==
  /\ [][\A c \in Ctl :
          (ctl[c].pc = "invalid" /\ ctl'[c].pc # "invalid") =>
            /\ ctl'[c].currentState = ctl[c].currentState
            /\ ctl'[c].lastAttempt = [move |-> ctl[c].mv, valid |-> FALSE]
            /\ ctl'[c].evAttemptFalse = ctl[c].evAttemptFalse + 1
            /\ ctl'[c].evStateChange = ctl[c].evStateChange
            /\ ctl'[c].oppCalls = ctl[c].oppCalls
            /\ ctl'[c].evError = ctl[c].evError
            /\ ctl'[c].evGameEnd = ctl[c].evGameEnd
            /\ ctl'[c].isRunning
            /\ ctl'[c].pc = "notover"
            /\ wasmState' = wasmState]_vars
  /\ [](\A c \in Ctl :
          ctl[c].retry # NoPlayer =>
            /\ ctl[c].pc \notin {"over", "endwait", "sthrow"}
            /\ ctl[c].pc = "wait" => ctl[c].curP = ctl[c].retry)

C2_Witness ==
  \E c \in Made : ctl[c].retry # NoPlayer /\ ctl[c].pc = "wait" /\ ctl[c].nApplied >= 1

\* C3: once the loop has caught an error of the acting agent's turn, onError
\* has been invoked exactly once in that run, no getMove is outstanding or
\* requested, no move is applied, no end-of-match processing runs, and the
\* run only settles.
C3_HaltOnError ==
  /\ [](\A c \in Ctl :
          ctl[c].errInLoop =>
            /\ ctl[c].pc \in {"ret", "idle"}
            /\ ctl[c].pending = 0
            /\ ctl[c].evError = 1
            /\ ctl[c].evGameEnd = 0
            /\ ctl[c].endCalls = ZeroCalls)
  /\ [][\A c \in Ctl :
          (ctl[c].errInLoop /\ ctl'[c].errInLoop) =>
            /\ ctl'[c].pending = ctl[c].pending
            /\ ctl'[c].nApplied = ctl[c].nApplied
            /\ ctl'[c].asked = ctl[c].asked
            /\ wasmState' = wasmState]_vars

C3_Witness ==
  \E c \in Made : ctl[c].errInLoop /\ ctl[c].pc = "idle" /\ ctl[c].nApplied >= 1

\* C4: in a run that ends by game over every registered agent with an
\* end-of-game hook is invoked exactly once, with 'win' for the winner of the
\* emitted finalState, 'loss' for the other and 'draw' for both when there is
\* no winner; onGameEnd is emitted once, after all the hooks.
C4_Expected(r, p) ==
  IF r.finalWinner = p THEN "win" ELSE IF r.finalWinner = NoPlayer THEN "draw" ELSE "loss"

InProgress(c) ==
  (IF ctl[c].pc = "assign" THEN 1 ELSE 0)
    + Cardinality({k \in Slots : mm[k].pc = "assign" /\ mm[k].c = c})

C5_Sequential ==
  \A c \in Made : ctl[c].pending <= 1 /\ InProgress(c) <= 1

\* C6 (as claimed): while a match started through the hook is running and
\* not stopped, a start request creates no further controller.
C6_StartGuard ==
  [][(\E c \in Made : ctl[c].isRunning /\ ~ctl[c].stopped) => hook'.made = hook.made]_vars

\* C7: a startMatch call on a controller whose earlier startMatch has not
\* settled changes nothing: no loop is started, no move requested, and
\* currentState, the transcript and the engine stay as they are.
C7_StartWhileRunning ==
  [][\A c \in Ctl :
       (ctl[c].isRunning /\ ctl'[c].calls # ctl[c].calls) =>
         /\ ctl'[c] = [ctl[c] EXCEPT !.calls = @ + 1]
         /\ wasmState' = wasmState]_vars

C7_Witness ==
  \E c \in Made : ctl[c].calls > ctl[c].runs /\ ctl[c].pc = "wait" /\ ctl[c].nApplied >= 1

\* C8 (as claimed): once the hook's stop operation has detached a controller,
\* that controller requests no further getMove and applies no further move.
C8_NoTurnAfterStop ==
  [][\A c \in Ctl :
       (ctl[c].stopped /\ ctl[c].isRunning) =>
         /\ ctl'[c].pending <= ctl[c].pending
         /\ ctl'[c].nApplied = ctl[c].nApplied]_vars

\* C9 (as claimed): a startMatch call made after an earlier startMatch of the
\* same controller has settled requests no move, applies no move, and runs no
\* end-of-game hook or onGameEnd event.
C9_Terminal ==
  \A c \in Made :
    ctl[c].runs >= 2 =>
      /\ ctl[c].pending = 0
      /\ ctl[c].pc # "assign"
      /\ ctl[c].endCalls = ZeroCalls
      /\ ctl[c].evGameEnd = 0

\* C10: an agent's start-of-game hook is invoked at most once, only if the
\* agent defines it, and has completed before the first getMove request made
\* to that agent.
C10_StartHookOnce ==
  \A c \in Made : \A p \in Players :
    LET r == ctl[c] IN
    /\ r.startCalls[p] <= 1
    /\ p \notin r.hooked => r.startCalls[p] = 0
    /\ (p \in r.asked /\ p \in r.hooked) => (r.startCalls[p] = 1 /\ p \in r.agentsStarted)

C10_Witness ==
  \E c \in Made :
    /\ ctl[c].retry = "player1" /\ ctl[c].pc = "wait" /\ ctl[c].nApplied = 0
    /\ ctl[c].startCalls["player1"] = 1

\* C11: submitMove(m, p) with a getMove pending resolves that promise with
\* m's data and position and with playerId p, and leaves nothing waiting;
\* submitMove with no getMove pending changes nothing, and the promise of a
\* later getMove starts pending.
PendingPromises == {k \in Promises : human.promise[k].st = "pending"}

C11_SubmitResolves ==
  /\ [](human.moveResolver # 0 => human.promise[human.moveResolver].st = "pending")
  /\ [][(human'.ops = human.ops + 1 /\ human'.op = "submitMove") =>
          LET k == human.moveResolver
              a == human'.arg
          IN  IF k # 0
              THEN /\ human'.promise[k].st = "resolved"
                   /\ human'.promise[k].value =
                        [playerId |-> a.p, position |-> a.m.position, data |-> a.m.data]
                   /\ \A j \in Promises \ {k} : human'.promise[j] = human.promise[j]
                   /\ ~isWaitingForMove(human')
              ELSE /\ human'.promise = human.promise
                   /\ ~isWaitingForMove(human')
                   /\ human'.timer = human.timer]_vars
  /\ [][(human'.ops = human.ops + 1 /\ human'.op = "getMove") =>
          human'.promise[human'.made].st = "pending"]_vars

\* A second submitMove (data 0) after the first one (data 1, for player2 while
\* the object said player1) resolved the promise, then a new getMove.
C11_Witness ==
  /\ human.op = "getMove" /\ human.ops = 4 /\ human.made = 2
  /\ human.promise[1].st = "resolved"
  /\ human.promise[1].value = [playerId |-> "player2", position |-> 0, data |-> 1]
  /\ human.arg = [m |-> [playerId |-> "player1", position |-> 1, data |-> 0], p |-> "player1"]
  /\ human.promise[2].st = "pending"

\* C12 (as claimed): a getMove promise is settled by the time five minutes
\* have passed since its getMove call, and it is rejected with the timeout
\* error only when five minutes have passed since that call.
C12_SettlesInTime ==
  \A k \in Promises :
    /\ human.promise[k].st = "pending" => human.now * TickMs <= Deadline(human, k)
    /\ human.promise[k].err = "timeout" => human.promise[k].end * TickMs >= Deadline(human, k)

\* C13 (as claimed): at most one getMove promise of the agent is unsettled,
\* and an unsettled promise is the one the agent's callbacks settle.
C13_OnePending ==
  /\ Cardinality(PendingPromises) <= 1
  /\ \A k \in PendingPromises : human.moveResolver = k /\ human.moveRejecter = k

\* C14: cancelMove with a getMove pending rejects that promise with the
\* cancellation error and leaves the agent not waiting, so that any following
\* submitMove changes nothing; cancelMove with no getMove pending changes
\* nothing.
C14_CancelRejects ==
  [][(human'.ops = human.ops + 1 /\ human'.op = "cancelMove") =>
       LET k == human.moveRejecter IN
       IF k # 0
       THEN /\ human.promise[k].st = "pending"
            /\ human'.promise[k].st = "rejected" /\ human'.promise[k].err = "cancelled"
            /\ \A j \in Promises \ {k} : human'.promise[j] = human.promise[j]
            /\ ~isWaitingForMove(human')
            /\ \A m \in PartialMoves : \A p \in Players : SubmitMove(human', m, p) = human'
       ELSE human' = Called(human, "cancelMove")]_vars

\* A submitMove that followed the cancellation of the only getMove.
C14_Witness ==
  /\ human.op = "submitMove" /\ human.made = 1 /\ human.ops = 3
  /\ human.promise[1].st = "rejected" /\ human.promise[1].err = "cancelled"

\* C15: one getMove call makes at most one LLM call; when the call fails or
\* the parsed move fails validateMove, getMove throws at once with no second
\* call; a returned move passed validateMove.
C15_OneCallFailFast ==
  /\ [](\A p \in Players :
          /\ llm[p].calls <= 1
          /\ llm[p].phase = "calling" => llm[p].calls = 1 /\ llm[p].retryCount = 0)
  /\ [][\A p \in Players :
          (llm[p].phase = "calling" /\ llm'[p] # llm[p] /\ llm'[p].cancels = llm[p].cancels
             /\ llm'[p].resets = llm[p].resets) =>
            /\ llm'[p].calls = llm[p].calls /\ llm'[p].gets = llm[p].gets
            /\ \/ /\ llm'[p].phase = "resolved" /\ llm'[p].outcome = "returned"
                  /\ AdapterValidateMove(wasmState, llm'[p].ret) = "true"
               \/ /\ llm'[p].phase = "rejected" /\ llm'[p].outcome = "threw"]_vars

C15_Witness ==
  /\ llm["player1"].outcome = "returned" /\ llm["player1"].calls = 1
  /\ llm["player2"].outcome = "threw" /\ llm["player2"].calls = 1
  /\ llm["player2"].err.cause = "provider" /\ llm["player2"].phase = "idle"

\* C16: when an LLM agent's parsed move is not a valid move, the error that
\* reaches the controller names that move and the acting player; the
\* controller goes through its catch block (onError once, no onGameEnd), and
\* no agent gets a further getMove call.
InvalidThrown(p) == llm[p].outcome = "threw" /\ llm[p].err.cause = "INVALID MOVE"

C16_InvalidMoveErrored ==
  /\ [](\A p \in Players :
          InvalidThrown(p) =>
            /\ llm[p].err.kind = "LLM GENERATION ERROR"
            /\ llm[p].err.player = p
            /\ ~ListIncludes(ValidMoveStrings(wasmState, p), llm[p].err.move)
            /\ ctl[1].curP = p
            /\ \A q \in Players \ {p} : llm[q].phase = "idle"
            /\ IF llm[p].phase = "rejected"
               THEN ctl[1].pc = "wait"
               ELSE /\ ctl[1].pc \in {"threw", "ret", "idle"}
                    /\ ctl[1].pending = 0
                    /\ ctl[1].evGameEnd = 0
                    /\ ctl[1].pc \in {"ret", "idle"} =>
                         ctl[1].errInLoop /\ ctl[1].evError = 1)
  /\ [][\A p \in Players :
          InvalidThrown(p) =>
            /\ \A q \in Players : llm'[q].gets = llm[q].gets
            /\ ctl'[1].nApplied = ctl[1].nApplied
            /\ wasmState' = wasmState]_vars

\* player2's agent named a cell that was taken; the match has settled.
C16_Witness ==
  /\ InvalidThrown("player2") /\ llm["player2"].err.move = <<"2">>
  /\ ctl[1].pc = "idle" /\ ctl[1].evError = 1 /\ ctl[1].nApplied = 1

\* C17: a getMove call on a cancelled agent throws the cancellation error and
\* makes no LLM call; the flag is set by cancel() and stays until reset()
\* clears it; a getMove call on an agent that is not cancelled goes on to
\* the LLM call.
C17_CancelReset ==
  [][\A p \in Players :
       /\ llm'[p].gets # llm[p].gets =>
            IF llm[p].cancelled
            THEN /\ llm'[p].phase = "rejected" /\ llm'[p].outcome = "threw"
                 /\ llm'[p].err = CancelledError /\ llm'[p].calls = 0
                 /\ llm'[p].cancelled
            ELSE /\ llm'[p].phase = "calling" /\ llm'[p].calls = 1
       /\ llm'[p].cancels # llm[p].cancels => llm'[p].cancelled
       /\ llm'[p].resets # llm[p].resets => ~llm'[p].cancelled
       /\ llm'[p].cancelled # llm[p].cancelled =>
            (llm'[p].cancels # llm[p].cancels \/ llm'[p].resets # llm[p].resets)]_vars

\* player1's agent was cancelled, reset, and then returned a move; player2's
\* agent was cancelled and its getMove threw without an LLM call.
C17_Witness ==
  /\ llm["player1"].cancels = 1 /\ llm["player1"].resets = 1
  /\ llm["player1"].outcome = "returned" /\ llm["player1"].gets = 1
  /\ llm["player2"].cancelled /\ llm["player2"].gets = 1
  /\ llm["player2"].err = CancelledError /\ llm["player2"].calls = 0

\* C18 (as claimed): parseMove returns a valid move of the first stage that
\* has a match, each stage being tried over the whole list before the next
\* (equality, equality without regard to case, containment, containment
\* without regard to case, word tokens), and the trimmed reply when no stage
\* has one.
StageHits(content, list) ==
  << {i \in 1..Len(list) : list[i] = content},
     {i \in 1..Len(list) : toLowerCase(list[i]) = toLowerCase(content)},
     {i \in 1..Len(list) : StrIncludes(content, list[i])},
     {i \in 1..Len(list) : StrIncludes(toLowerCase(content), toLowerCase(list[i]))},
     {i \in 1..Len(list) : \E t \in 1..Len(Tokens(content)) :
        toLowerCase(list[i]) = toLowerCase(Tokens(content)[t])} >>

C18_StagedPriority ==
  pm.done =>
    LET content == trim(pm.response)
        hits == StageHits(content, pm.list)
        stages == {n \in 1..5 : hits[n] # {}}
    IN  IF stages = {} THEN pm.out = content
        ELSE LET first == CHOOSE n \in stages : \A k \in stages : n <= k
             IN  \E i \in hits[first] : pm.out = pm.list[i]

\* C19: for a move whose data is a string, validateMove returns true exactly
\* when the move's playerId is the engine's current player and its data is in
\* the valid-move list the engine gives for its state at the time of the
\* call; the loop's validation of a move follows that answer.
StringMoves == {m \in MoveSet : m.data # 0}

ValidNow(m) ==
  m.playerId = get_current_player(wasmState) /\ m.data \in get_valid_moves(wasmState)

C19_ValidateIff ==
  /\ [](\A m \in StringMoves : (AdapterValidateMove(wasmState, m) = "true") <=> ValidNow(m))
  /\ [][\A c \in Ctl :
          (ctl[c].pc = "got" /\ ctl'[c].pc # "got" /\ ctl[c].mv.data # 0) =>
            /\ ctl'[c].pc = "valid" <=> ValidNow(ctl[c].mv)
            /\ ctl'[c].pc \in {"valid", "invalid", "threw"}]_vars

\* The loop turned down a move for a cell that a makeMove call had taken
\* since the turn began, and earlier accepted a move.
C19_Witness ==
  /\ ctl[1].pc = "invalid" /\ ctl[1].mv.data \in Taken(wasmState)
  /\ ctl[1].mv.playerId = get_current_player(wasmState)
  /\ ctl[1].nApplied >= 2 /\ mm[1].pc = "done"

\* C20: applyMove never returns a GameState for a move whose apply_move reply
\* is an error string: no state of a controller or of a call in flight has an
\* error text as its board, and the step that received the error reply leaves
\* every controller's currentState and count of applied moves as they were.
C20_ApplyThrowsOnError ==
  /\ [](/\ \A m \in StringMoves :
             StartsWithError(apply_move(wasmState, m.data)) =>
               ~AdapterApplyMove(wasmState, ctl[1].currentState, m).ok
        /\ \A c \in Made :
             ~StartsWithError(ctl[c].currentState.board) /\ ~StartsWithError(ctl[c].newSt.board)
        /\ \A k \in Slots : ~StartsWithError(mm[k].newSt.board))
  /\ [][(StartsWithError(wasmState') /\ ~StartsWithError(wasmState)) =>
          /\ \A c \in Ctl :
               /\ ctl'[c].currentState = ctl[c].currentState
               /\ ctl'[c].nApplied = ctl[c].nApplied
               /\ ctl'[c].pc = "assign" => ctl[c].pc = "assign"
          /\ \A k \in Slots : mm'[k].pc = "assign" => mm[k].pc = "assign"]_vars

\* The loop's applyMove got the error reply (a makeMove call had taken the
\* cell after the loop validated the move) and the loop went to its catch
\* block with currentState as it was.
C20_Witness ==
  /\ StartsWithError(wasmState)
  /\ ctl[1].pc = "threw" /\ ctl[1].mv.data \in Cells
  /\ mm[1].pc = "assign" /\ mm[1].move.data = ctl[1].mv.data
  /\ ctl[1].nApplied = 2 /\ Len(ctl[1].currentState.moves) = 1

\* ------------------------------- WasmGameWrapper: strings in linear memory
\* A JavaScript string is a sequence of characters; the ones that matter to
\* the encoding: a one-byte character, a two-byte character, U+0000, U+FEFF
\* (the byte order mark), a lone surrogate, and U+FFFD, which the encoder
\* puts in place of a lone surrogate and the decoder in place of bytes that
\* are not UTF-8.  "OTHER" is any other character the decoder may give.
StringChars == {"a", "e'", "NUL", "BOM", "LONE"}

\* TextEncoder.encode, one character.
EncodeChar(ch) ==
  CASE ch = "a" -> <<97>>
    [] ch = "e'" -> <<195, 169>>
    [] ch = "NUL" -> <<0>>
    [] ch = "BOM" -> <<239, 187, 191>>
    [] OTHER -> <<239, 191, 189>>

RECURSIVE encode(_)
encode(str) == IF str = <<>> THEN <<>> ELSE EncodeChar(Head(str)) \o encode(Tail(str))

Continuation(b) == b >= 128 /\ b <= 191

Drop(bytes, n) == SubSeq(bytes, n + 1, Len(bytes))

Three(b2, b3) ==
  IF b2 = 187 /\ b3 = 191 THEN "BOM"
  ELSE IF b2 = 191 /\ b3 = 189 THEN "FFFD" ELSE "OTHER"

\* The UTF-8 decoder, not fatal: a sequence that is cut short or does not
\* begin with a lead byte gives one U+FFFD.
RECURSIVE DecodeFrom(_)
DecodeFrom(b) ==
  IF b = <<>> THEN <<>>
  ELSE IF b[1] < 128
       THEN <<IF b[1] = 0 THEN "NUL" ELSE "a">> \o DecodeFrom(Drop(b, 1))
  ELSE IF b[1] = 195 /\ Len(b) >= 2 /\ Continuation(b[2])
       THEN <<IF b[2] = 169 THEN "e'" ELSE "OTHER">> \o DecodeFrom(Drop(b, 2))
  ELSE IF b[1] = 239 /\ Len(b) >= 3 /\ Continuation(b[2]) /\ Continuation(b[3])
       THEN <<Three(b[2], b[3])>> \o DecodeFrom(Drop(b, 3))
  ELSE IF b[1] = 239 /\ Len(b) >= 2 /\ Continuation(b[2])
       THEN <<"FFFD">> \o DecodeFrom(Drop(b, 2))
  ELSE <<"FFFD">> \o DecodeFrom(Drop(b, 1))

\* new TextDecoder().decode: ignoreBOM is false, a leading mark is left out.
decode(b) ==
  IF Len(b) >= 3 /\ SubSeq(b, 1, 3) = <<239, 187, 191>>
  THEN DecodeFrom(Drop(b, 3))
  ELSE DecodeFrom(b)

\* The module's memory is a sequence of bytes; address a is element a + 1.
\* Uint8Array.set(bytes, ptr)
MemorySet(memory, bytes, ptr) ==
  [i \in 1..Len(memory) |->
     IF i - 1 >= ptr /\ i - 1 < ptr + Len(bytes) THEN bytes[i - ptr] ELSE memory[i]]

Zeros(n) == [i \in 1..n |-> 0]

\* Math.ceil(neededBytes / 65536), in pages of PageBytes
CeilPages(neededBytes) == (neededBytes + PageBytes - 1) \div PageBytes

NoMalloc == PageBytes * MaxPages + 1

WriteThrew(memory) == [threw |-> TRUE, memory |-> memory, ptr |-> 0]

\* The bytes to write and where: with malloc the pointer the module gave
\* (mallocPtr, NoMalloc when it exports none), else the tail of the memory
\* grown by whole pages.  set throws a RangeError when the bytes do not fit,
\* grow when the memory cannot have that many pages.
WriteAt(memory, mallocPtr, bytes) ==
  IF mallocPtr # NoMalloc
  THEN IF mallocPtr + Len(bytes) > Len(memory) THEN WriteThrew(memory)
       ELSE [threw |-> FALSE, memory |-> MemorySet(memory, bytes, mallocPtr),
             ptr |-> mallocPtr]
  ELSE LET neededBytes == Len(bytes)
           neededPages == CeilPages(neededBytes)
           grown == memory \o Zeros(neededPages * PageBytes)
           ptr == Len(grown) - neededBytes
       IN  IF Len(grown) > PageBytes * MaxPages THEN WriteThrew(memory)
           ELSE [threw |-> FALSE, memory |-> MemorySet(grown, bytes, ptr), ptr |-> ptr]

\* A plausible slip: the string is written without its terminator.
writeStringUnterminated(memory, mallocPtr, str) == WriteAt(memory, mallocPtr, encode(str))

\* writeStringToWasm on the bytes of the memory: encode(str + '\0').
writeStringBytes(memory, mallocPtr, str) ==
  WriteAt(memory, mallocPtr, encode(str) \o <<0>>)

\* The while loop of readStringFromWasm: the length it ends with.
RECURSIVE ScanLength(_, _, _)
ScanLength(memory, ptr, length) ==
  IF ptr + length < Len(memory) /\ memory[ptr + length + 1] # 0
  THEN ScanLength(memory, ptr, length + 1)
  ELSE length

\* readStringFromWasm: memory.slice(ptr, ptr + length), decoded.
readStringFromWasm(memory, ptr) ==
  decode(SubSeq(memory, ptr + 1, ptr + ScanLength(memory, ptr, 0)))

\* One string written and read back, or one read at a pointer the module
\* returned, over memories of one page holding letters and zero bytes.
StringsOf(n) == UNION {[1..k -> StringChars] : k \in 0..n}

FirstPages == [1..PageBytes -> {0, 97}]

NoTrip == [memory |-> Zeros(PageBytes), mallocPtr |-> NoMalloc, str |-> <<>>, op |-> "none",
           threw |-> FALSE, ptr |-> 0, length |-> 0, back |-> <<>>]

InitStrings ==
  /\ MatchIdle
  /\ \E memory \in FirstPages : \E str \in StringsOf(MaxLen) :
     \E mallocPtr \in (0..PageBytes) \cup {NoMalloc} :
       wq = [NoTrip EXCEPT !.memory = memory, !.str = str, !.mallocPtr = mallocPtr]
  /\ adp = NoAdp /\ ldr = NoLdr /\ svc = NoSvc

StrWrite ==
  LET w == writeStringBytes(wq.memory, wq.mallocPtr, wq.str) IN
  /\ wq.op = "none"
  /\ wq' = [wq EXCEPT !.memory = w.memory, !.ptr = w.ptr, !.threw = w.threw,
                      !.op = "write"]

StrReadBack ==
  /\ wq.op = "write" /\ ~wq.threw
  /\ wq' = [wq EXCEPT !.back = readStringFromWasm(wq.memory, wq.ptr),
                      !.length = ScanLength(wq.memory, wq.ptr, 0), !.op = "readBack"]

\* A read at whatever pointer a foreign call returned.
StrReadAt ==
  /\ wq.op = "none"
  /\ \E ptr \in 0..(Len(wq.memory) + 1) :
       wq' = [wq EXCEPT !.ptr = ptr, !.back = readStringFromWasm(wq.memory, ptr),
                        !.length = ScanLength(wq.memory, ptr, 0), !.op = "readAt"]

NextStrings ==
  /\ \/ StrWrite
     \/ StrReadBack
     \/ StrReadAt
  /\ UNCHANGED <<matchVars, adp, ldr, svc>>

SpecStrings == InitStrings /\ [][NextStrings]_vars

\* ------------------------------------------------ the wrapper's queries
InitWrapper ==
  /\ MatchIdle
  /\ wq \in [free : BOOLEAN, hasCurrentPlayer : BOOLEAN, reply : {NoWq.reply},
              heap : {NoHeap}, n : {0}, op : {"none"}, threw : {FALSE},
              out : {NoWq.out}]
  /\ adp = NoAdp /\ ldr = NoLdr /\ svc = NoSvc

WqDone(op, r) ==
  /\ wq.n < MaxQueries
  /\ wq' = [wq EXCEPT !.heap = r.heap, !.threw = r.threw, !.op = op, !.n = @ + 1,
                      !.out = IF op = "getValidMoves" /\ ~r.threw
                              THEN ParseMoves(wq.reply) ELSE NoWq.out]

WqGetValidMoves ==
  \E fail \in Failures : WqDone("getValidMoves", StringQuery(wq.heap, wq.free, fail))

WqApplyMove ==
  \E fail \in Failures : WqDone("applyMove", WasmApplyMove(wq.heap, wq.free, fail))

WqIsGameOver ==
  \E fail \in Failures : WqDone("isGameOver", WasmIsGameOver(wq.heap, wq.free, fail))

WqGetWinner ==
  \E fail \in Failures : WqDone("getWinner", StringQuery(wq.heap, wq.free, fail))

WqRender ==
  \E fail \in Failures : WqDone("render", StringQuery(wq.heap, wq.free, fail))

WqGetCurrentPlayer ==
  \E fail \in Failures :
    WqDone("getCurrentPlayer",
           WasmCurrentPlayerQuery(wq.heap, wq.free, wq.hasCurrentPlayer, fail))

NextWrapper ==
  /\ \/ WqGetValidMoves
     \/ WqApplyMove
     \/ WqIsGameOver
     \/ WqGetWinner
     \/ WqRender
     \/ WqGetCurrentPlayer
  /\ UNCHANGED <<matchVars, adp, ldr, svc>>

SpecWrapper == InitWrapper /\ [][NextWrapper]_vars

\* getValidMoves alone, over every reply of up to MaxReply characters.
RECURSIVE StringsUpTo(_)
StringsUpTo(n) ==
  IF n = 0 THEN {<<>>}
  ELSE LET shorter == StringsUpTo(n - 1)
       IN  shorter \cup {Append(x, ch) : x \in shorter, ch \in ReplyChars}

InitMoves ==
  /\ MatchIdle
  /\ wq \in [free : {TRUE}, hasCurrentPlayer : {TRUE}, reply : StringsUpTo(MaxReply),
              heap : {NoHeap}, n : {0}, op : {"none"}, threw : {FALSE},
              out : {NoWq.out}]
  /\ adp = NoAdp /\ ldr = NoLdr /\ svc = NoSvc

NextMoves == WqGetValidMoves /\ UNCHANGED <<matchVars, adp, ldr, svc>>

SpecMoves == InitMoves /\ [][NextMoves]_vars

\* -------------------------------------------------- LLMService.callLLM
SvcCall ==
  /\ Len(svc.calls) < MaxCalls
  /\ \E o \in FetchOutcomes :
       svc' = [svc EXCEPT !.calls = Append(@, [fetch |-> o, out |-> callLLM(o)])]

InitService == MatchIdle /\ HostInit

NextService == SvcCall /\ UNCHANGED <<matchVars, adp, wq, ldr>>

SpecService == InitService /\ [][NextService]_vars

\* ------------------------------------------------------ the game loader
\* What earlier sessions left in localStorage: game n of a session that
\* ended before this one began (time 0).
Persisted(n, m) == [id |-> [n |-> n, t |-> 0], mod |-> m]

StoreOf(games, metadata, corrupt) ==
  [hasGames |-> TRUE, hasMetadata |-> TRUE, corrupt |-> corrupt, games |-> games,
   metadata |-> metadata]

InitStores ==
  {NoStore,
   StoreOf(<<Persisted(1, GoodModule)>>, {Persisted(1, GoodModule).id}, FALSE),
   StoreOf(<<Persisted(1, [GoodModule EXCEPT !.compiles = FALSE]),
             Persisted(2, GoodModule)>>,
           {Persisted(1, GoodModule).id, Persisted(2, GoodModule).id}, FALSE),
   StoreOf(<<Persisted(1, GoodModule), Persisted(2, [GoodModule EXCEPT !.render = ""])>>,
           {Persisted(2, GoodModule).id}, FALSE),
   StoreOf(<<Persisted(1, GoodModule)>>, {Persisted(1, GoodModule).id}, TRUE),
   [StoreOf(<<Persisted(1, GoodModule)>>, {}, FALSE) EXCEPT !.hasMetadata = FALSE]}

InitLoader ==
  /\ MatchIdle
  /\ \E store \in InitStores : ldr = NewLoader(store, 1)
  /\ adp = NoAdp /\ wq = NoWq /\ svc = NoSvc

\* A loadGameFromBytes call.  Before its last await the call works on its
\* arguments and on the fresh instance only; what it reads and writes of
\* the loader, it does in the synchronous stretch after that await.
LoadCall(modules, metadatas) ==
  \E m \in modules : \E metadata \in metadatas : \E mode \in PersistModes :
    ldr' = [LoadGameFromBytes(ldr, m, metadata, mode) EXCEPT !.calls = @ + 1,
                                                            !.op = "load"]

\* Loads of a module that passes and of one that throws in the smoke test.
LdrLoad ==
  /\ ldr.calls < MaxLoaderCalls
  /\ LoadCall({GoodModule, [GoodModule EXCEPT !.traps = TRUE]}, {GoodMetadata})

LdrClearAll ==
  /\ ldr.calls < MaxLoaderCalls
  /\ \E mode \in PersistModes :
       ldr' = [clearAllGames(ldr, mode) EXCEPT !.calls = @ + 1, !.cleared = TRUE,
                                              !.op = "clearAllGames"]

LdrRemove ==
  /\ ldr.calls < MaxLoaderCalls
  /\ \E id \in Ids(ldr.loadedGames) : \E mode \in PersistModes :
       ldr' = [removeGame(ldr, id, mode) EXCEPT !.calls = @ + 1, !.op = "removeGame"]

\* The restore pass comes back from createWasmGame and takes the entry.
LdrRestoreStep ==
  /\ ldr.restore.todo # <<>>
  /\ ldr' = [RestoreEntry(ldr) EXCEPT !.op = "restore"]

\* Date.now() moves on.
LdrTick ==
  /\ ldr.now < MaxClock
  /\ ldr' = [ldr EXCEPT !.now = @ + 1, !.op = "tick"]

\* The page is loaded again: a new loader over the same store, later.
LdrRestart ==
  /\ ldr.calls < MaxLoaderCalls /\ ldr.now < MaxClock
  /\ ldr' = Reloaded(ldr)

NextLoader ==
  /\ \/ LdrLoad
     \/ LdrClearAll
     \/ LdrRemove
     \/ LdrRestoreStep
     \/ LdrTick
     \/ LdrRestart
  /\ UNCHANGED <<matchVars, adp, wq, svc>>

SpecLoader == InitLoader /\ [][NextLoader]_vars

\* The continuation of the restore pass is a queued task: it runs.
SpecLoaderFair ==
  SpecLoader /\ WF_vars(LdrRestoreStep /\ UNCHANGED <<matchVars, adp, wq, svc>>)

\* The first loadGameFromBytes call of a session, over every candidate,
\* while the restore pass runs.
LdrFirstLoad ==
  /\ ldr.calls = 0
  /\ LoadCall(CandidateModules, Metadatas)

NextLoad ==
  /\ \/ LdrFirstLoad
     \/ LdrRestoreStep
     \/ LdrTick
  /\ UNCHANGED <<matchVars, adp, wq, svc>>

SpecLoad == InitLoader /\ [][NextLoad]_vars

\* ------------------------------------------------------------------ claims
\* C21: when the module gives no current-player label that is exactly
\* 'player1' or 'player2' (its export returns another string, or it has no
\* such export), getInitialState, getValidMoves, applyMove and
\* getCurrentPlayer throw; none of them returns a player.
PlayerReaders == {"getInitialState", "getValidMoves", "applyMove", "getCurrentPlayer"}

C21_StrictPlayerLabel ==
  (adp.op \in PlayerReaders
     /\ ~(adp.mod.hasCurrentPlayer /\ adp.mod.player \in Players))
    => adp.out.threw

\* C22: when the game is over and get_winner returns a non-empty label
\* that is none of 'player1', 'player2', 'draw', applyMove and getWinner
\* throw; neither returns a draw or no winner.
C22_StrictWinnerLabel ==
  (adp.op \in {"applyMove", "getWinner"}
     /\ adp.mod.over
     /\ adp.mod.winner \notin {"player1", "player2", "draw", ""})
    => adp.out.threw

\* C29: for every reply of get_valid_moves, getValidMoves returns a
\* sequence whose elements are all strings.
C29_MovesAreStrings ==
  (wq.op = "getValidMoves" /\ ~wq.threw)
    => /\ wq.out.t = "array"
       /\ \A i \in 1..Len(wq.out.v) : wq.out.v[i].t = "string"

\* C30: when the module exports free, a query that has run, returned or
\* thrown, leaves no pointer it allocated or received unfreed.
C30_NoPointerLeft ==
  (wq.free /\ wq.op # "none") => wq.heap.live = {}

\* A step in which a loadGameFromBytes call returned.
LoadReturned == ldr'.op = "load" /\ ldr'.calls = ldr.calls + 1

\* C23: a loadGameFromBytes call that returns success = false leaves the
\* registry and the persisted store as they were and hands out no id.
C23_FailedLoadLeavesNoTrace ==
  [][(LoadReturned /\ ~ldr'.last.result.success)
       => /\ ldr'.loadedGames = ldr.loadedGames
          /\ ldr'.store = ldr.store
          /\ ldr'.gameIdCounter = ldr.gameIdCounter
          /\ ldr'.last.result.id = NoId]_vars

C23_Witness ==
  /\ ldr.op = "load" /\ ~ldr.last.result.success
  /\ ldr.last.result.error = "Game engine test failed"
  /\ ldr.loadedGames # <<>> /\ ldr.store.games # <<>>

\* What makes a candidate fail structural validation: bytes that do not
\* compile (no magic header), or else each required export it lacks.
StructuralCauses(m) ==
  IF ~m.compiles THEN {"header"}
  ELSE m.missing \cup (IF m.memory THEN {} ELSE {"memory"})

\* The causes an error text of the loader names.
Names(text) ==
  IF text = "Metadata must have a valid name (non-empty string)" THEN {"name"}
  ELSE IF text = "Tags must be an array if provided" THEN {"tags"}
  ELSE {}

\* C24: for a candidate that fails structural validation, the result is a
\* failure whose validationErrors names the missing header, or each
\* missing required export, memory included.
C24_StructuralErrorsNamed ==
  (ldr.last.result.error # "none" /\ StructuralCauses(ldr.last.mod) # {})
    => /\ ~ldr.last.result.success
       /\ \A cause \in StructuralCauses(ldr.last.mod) :
            \E i \in 1..Len(ldr.last.result.validationErrors) :
              cause \in Names(ldr.last.result.validationErrors[i])

\* The smoke test's conditions on a module's fresh instance.
SmokePassed(m) ==
  /\ m.memory /\ ~m.traps
  /\ m.initial # ""
  /\ ParseMoves(m.moves).t = "array"
  /\ m.render # ""
  /\ Len(ParseMoves(m.moves).v) > 0 => m.apply # ""

\* C25: loadGameFromBytes adds a module to the registry only if the smoke
\* test passed on it, and a module on which it did not pass gives
\* success = false.
C25_RegisteredOnlyIfSmokePassed ==
  [][LoadReturned
       => /\ ldr'.loadedGames # ldr.loadedGames => SmokePassed(ldr'.last.mod)
          /\ ~SmokePassed(ldr'.last.mod)
               => ~ldr'.last.result.success /\ ldr'.loadedGames = ldr.loadedGames]_vars

C25_Witness ==
  /\ ldr.op = "load" /\ ldr.last.result.success
  /\ ldr.last.mod = GoodModule
  /\ ldr.last.result.id \in Ids(ldr.loadedGames)

\* C26: a successful loadGameFromBytes registers the game under an id no
\* game of the registry had, so the registry grows by that game; this
\* also after clearAllGames and beside restored games.
C26_FreshId ==
  [][(LoadReturned /\ ldr'.last.result.success)
       => /\ ldr'.last.result.id \notin Ids(ldr.loadedGames)
          /\ Ids(ldr'.loadedGames) = Ids(ldr.loadedGames) \cup {ldr'.last.result.id}
          /\ Len(ldr'.loadedGames) = Len(ldr.loadedGames) + 1]_vars

\* After a clearAllGames, a restored game and a newly loaded one carry the
\* same counter value; and the same module loaded twice within a
\* millisecond is there twice.
C26_Witness ==
  /\ ldr.op = "load" /\ ldr.last.result.success /\ ldr.cleared
  /\ \E i, j, k \in 1..Len(ldr.loadedGames) :
       /\ ldr.loadedGames[i].id.t = 0
       /\ ldr.loadedGames[j].id.t > 0
       /\ ldr.loadedGames[j].id.n = ldr.loadedGames[i].id.n
       /\ k # j
       /\ ldr.loadedGames[k].mod = ldr.loadedGames[j].mod
       /\ ldr.loadedGames[k].id.t = ldr.loadedGames[j].id.t

\* A step of the restore pass.
RestoreTurn == ldr.restore.todo # <<>> /\ ldr'.op = "restore"

Restorable(e) ==
  /\ e.id \in ldr.restore.metadata
  /\ e.mod.compiles /\ e.mod.missing = {}

\* C27: the restore pass takes the persisted entries one by one; an entry
\* that has metadata and recompiles is registered under its persisted id,
\* whether or not it would pass the smoke test, any other is passed over,
\* and in both cases the pass goes on with the remaining entries; every
\* pass comes to its end, where whenReady resolves.
C27_RestorePass ==
  /\ ~Ready(ldr) ~> Ready(ldr)
  /\ [][RestoreTurn
         => LET e == Head(ldr.restore.todo) IN
          /\ ldr'.restore.todo = Tail(ldr.restore.todo)
          /\ ldr'.restore.metadata = ldr.restore.metadata
          /\ IF Restorable(e)
             THEN /\ e.id \in Ids(ldr'.loadedGames)
                  /\ \A i \in 1..Len(ldr'.loadedGames) :
                       ldr'.loadedGames[i].id = e.id => ldr'.loadedGames[i].mod = e.mod
             ELSE ldr'.loadedGames = ldr.loadedGames
          /\ \A id \in Ids(ldr.loadedGames) : id \in Ids(ldr'.loadedGames)]_vars

\* The pass is through: its first entry had no metadata and was passed
\* over, its second is registered although its render() is empty.
C27_Witness ==
  /\ ldr.op = "restore" /\ Ready(ldr)
  /\ Len(ldr.store.games) = 2 /\ Len(ldr.loadedGames) = 1
  /\ ~SmokePassed(ldr.loadedGames[1].mod)
  /\ ldr.loadedGames[1].id = ldr.store.games[2].id

\* C28: callLLM reports HTTP 401/403 as auth, 429 as rate_limit, an
\* aborted request as timeout, a fetch failure as network and 5xx as
\* server_error, and calls that failed in two different of these ways
\* never carry the same kind.
FailureMode(o) ==
  IF o.mode = "http"
  THEN IF o.status \in {401, 403} THEN "auth"
       ELSE IF o.status = 429 THEN "rate_limit"
       ELSE IF o.status >= 500 THEN "server_error"
       ELSE "other"
  ELSE IF o.mode = "abort" THEN "timeout" ELSE "network"

C28_DistinctErrorKinds ==
  /\ \A i \in DOMAIN svc.calls :
       FailureMode(svc.calls[i].fetch) # "other"
         => svc.calls[i].out.type = FailureMode(svc.calls[i].fetch)
  /\ \A i, j \in DOMAIN svc.calls :
       (/\ FailureMode(svc.calls[i].fetch) # "other"
        /\ FailureMode(svc.calls[j].fetch) # "other"
        /\ FailureMode(svc.calls[i].fetch) # FailureMode(svc.calls[j].fetch))
         => svc.calls[i].out.type # svc.calls[j].out.type

\* ------------------------------------------------------------------ C32
\* C32: a move the module rejects leaves the wrapper's cached current state
\* as it was: the state on which getValidMoves, isGameOver, getWinner, render
\* and getCurrentPlayer are evaluated is never an error string.
C32_CachedStateAccepted == ~StartsWithError(wasmState)

\* ------------------------------------------------------------------ C33
\* C33: the wrapper's current state changes only when a controller is
\* constructed (getInitialState: it becomes the module's initial state,
\* whatever was applied before) and when applyMove is called (it becomes the
\* module's reply); every other step, the queries included, leaves it as it
\* is, and a newly constructed controller starts from the initial state.
C33_StateChangesOnlyByResetOrApply ==
  [][/\ wasmState' # wasmState =>
          \/ hook'.made # hook.made
          \/ \E c \in Ctl : /\ ctl[c].pc = "valid" /\ ctl'[c].pc \in {"assign", "threw"}
                            /\ wasmState' = apply_move(wasmState, ctl[c].mv.data)
     /\ \A c \in Ctl :
          (~ctl[c].made /\ ctl'[c].made) =>
            /\ wasmState' = get_initial_state
            /\ ctl'[c].currentState.board = get_initial_state
            /\ ctl'[c].currentState.moves = <<>>]_vars

\* A second controller was just constructed after the first one had applied
\* moves: the engine is back at the initial state.
C33_Witness ==
  /\ hook.made = 2 /\ ctl[2].pc = "board"
  /\ ctl[1].nApplied > 0 /\ Len(ctl[1].currentState.moves) > 0
  /\ wasmState = get_initial_state

\* ------------------------------------------------------------------ C34
\* C34: every move that is applied to the engine, by the game loop or by
\* makeMove, is valid in the engine state it is applied to: each step that
\* calls applyMove starts in a state where validateMove accepts the move.
C34_AppliedMoveValidNow ==
  [][/\ \A c \in Ctl :
          (ctl[c].pc = "valid" /\ ctl'[c].pc # "valid") =>
            AdapterValidateMove(wasmState, ctl[c].mv) = "true"
     /\ \A k \in Slots :
          (mm[k].pc = "validated" /\ mm'[k].pc # "validated") =>
            AdapterValidateMove(wasmState, mm[k].move) = "true"]_vars

\* ------------------------------------------------------------------ C35
\* C35: once the hook has detached a controller (stopMatch or resetMatch) and
\* started a new match, no step of the detached controller (its onError or
\* onGameEnd event included) changes the hook's state: isPlaying,
\* isGameOver, error and the active-match guard stay those of the new match.
C35_DetachedControllerSilent ==
  [][\A c \in Ctl :
       (ctl[c].stopped /\ hook.ref \notin {0, c} /\ ctl'[c] # ctl[c]) => hook' = hook]_vars

\* ------------------------------------------------------------------ C36
\* C36: a getMove promise is rejected with the timeout error no earlier than
\* five minutes after the getMove call that made it: the timer of an earlier
\* getMove, already resolved or cancelled, does not reject it.
C36_TimeoutAfterFiveMinutes ==
  \A k \in Promises :
    human.promise[k].err = "timeout" =>
      (human.promise[k].end - human.promise[k].at) * TickMs >= FiveMinutes

\* ------------------------------------------------------------------ C37
\* The persisted games of this session's startup that recompile.
Recompiling ==
  {ldr.restore.gameFiles[i].id : i \in
     {j \in 1..Len(ldr.restore.gameFiles) :
        /\ ldr.restore.gameFiles[j].id \in ldr.restore.metadata
        /\ initialize(ldr.restore.gameFiles[j].mod)}}

\* C37: when the restore pass completes, every game that was persisted at
\* startup, recompiles and has not been removed since is still in the
\* persisted store, whatever loadGameFromBytes and removeGame calls completed
\* while the pass was running.
C37_RestoredStayPersisted ==
  [][(~Ready(ldr) /\ Ready(ldr') /\ ldr'.op = "restore") =>
       \A id \in Recompiling :
         id \in Ids(ldr'.loadedGames) => id \in Ids(ldr'.store.games)]_vars

\* ------------------------------------------------------------------ C38
\* C38: in one run of startMatch the events onGameEnd and onError are
\* mutually exclusive and each is raised at most once, whichever agent hook,
\* getMove call or engine query fails; and the controller is running exactly
\* while a startMatch call has not settled.
C38_OneOutcomePerRun ==
  \A c \in Made :
    /\ ctl[c].evError + ctl[c].evGameEnd <= 1
    /\ ctl[c].isRunning <=> ctl[c].pc # "idle"

\* A run settled with onError alone after an agent's onGameEnd hook failed at
\* the end of a game in which moves were applied.
C38_Witness ==
  /\ ctl[1].pc = "idle" /\ ~ctl[1].isRunning /\ ctl[1].runs > 0
  /\ ctl[1].evError = 1 /\ ctl[1].evGameEnd = 0
  /\ ctl[1].endCalls["player1"] = 1 /\ ctl[1].nApplied > 0

\* ------------------------------------------------------------------ C39
\* C39: when every getMove call settles and invalid moves come only finitely
\* often, a started match settles: the controller comes to rest with the
\* end-of-match processing done (every agent's end hook called, onGameEnd
\* raised) or with onError raised; and whenever the loop waits for an agent
\* there is an outstanding getMove request.
MatchSettled(c) ==
  /\ ctl[c].pc = "idle" /\ ~ctl[c].isRunning
  /\ \/ ctl[c].evError = 1 /\ ctl[c].evGameEnd = 0
     \/ /\ ctl[c].evGameEnd = 1 /\ ctl[c].evError = 0
        /\ is_game_over(wasmState)
        /\ \A p \in ctl[c].agents \cap ctl[c].hooked : ctl[c].endCalls[p] = 1

C39_MatchSettles ==
  /\ [](\A c \in Made : ctl[c].pc = "wait" => ctl[c].pending = 1)
  /\ \A c \in Ctl : (ctl[c].isRunning ~> MatchSettled(c))

\* A match that settled in GameOver after an invalid move and applied moves
\* of both players.
C39_Witness ==
  /\ MatchSettled(1) /\ ctl[1].evGameEnd = 1
  /\ ctl[1].nInvalid >= 1 /\ ctl[1].nApplied >= 2

\* ------------------------------------------------------------------ C31
\* C31 (as claimed): every string that was written is read back as it was.
C31_RoundTripEveryString ==
  wq.op = "readBack" => wq.back = wq.str

\* The strings the encoding carries: no U+0000, no lone surrogate, no byte
\* order mark in front.
Carried(str) ==
  /\ \A i \in 1..Len(str) : str[i] \notin {"NUL", "LONE"}
  /\ str # <<>> => str[1] # "BOM"

\* C31 (amended): a well-formed string without U+0000 and without a leading
\* U+FEFF that was written, through malloc or at the tail of the grown
\* memory, is read back as it was; and every read stops at the first zero
\* byte at or after the pointer, or at the end of the buffer, and takes no
\* byte outside the buffer.
C31_RoundTripCarried ==
  /\ (wq.op = "readBack" /\ Carried(wq.str)) => wq.back = wq.str
  /\ wq.op \in {"readBack", "readAt"} =>
       /\ wq.ptr + wq.length <= Len(wq.memory) \/ wq.length = 0
       /\ \A i \in 0..(wq.length - 1) : wq.memory[wq.ptr + i + 1] # 0
       /\ wq.ptr + wq.length < Len(wq.memory) => wq.memory[wq.ptr + wq.length + 1] = 0

\* A string with a two-byte character and a mark inside, written at the tail
\* of the memory grown by two pages, came back as it was.
C31_Witness ==
  /\ wq.op = "readBack" /\ wq.mallocPtr = NoMalloc
  /\ wq.str = <<"e'", "BOM", "a">> /\ wq.back = wq.str
  /\ Len(wq.memory) = 3 * PageBytes /\ wq.ptr = Len(wq.memory) - 7

====
